---------------------------- MODULE Spec2Model ----------------------------
(***************************************************************************)
(* Model of the PathFinder matching engine                                 *)
(* (src/backend/services/matching_service.py) and of the gap analyzer of   *)
(* the skill graph (src/backend/services/skill_nodes_service.py).          *)
(*                                                                         *)
(* Scores are Python floats in the source.  They are modelled as exact     *)
(* rationals <<numerator, denominator>> in lowest terms, so that equality  *)
(* of two scores is equality of the tuples.                                *)
(***************************************************************************)
EXTENDS Integers, Sequences, FiniteSets, TLC

VARIABLES
    employees,   \* Employee rows of the store: id -> row
    vacancies,   \* Vacancy rows of the store (with their role): id -> row
    skills,      \* ids of the SkillGraph rows of the store
    matches,     \* Match rows of the store, in insertion order
    ret,         \* the last call: [op, args, result]
    prev,        \* the call before it, when it was the same operation
    skill_nodes,    \* SkillGraph rows of the store, in insertion order
    relationships,  \* SkillRelationship rows of the store, in insertion order
    tasks,          \* the coroutines in flight: task -> [op, args, pc, ...]
    unique_keys,    \* whether the tables of the store reject duplicate keys
    foreign_keys    \* whether the store rejects a parent id that is no row

vars == <<employees, vacancies, skills, matches, ret, prev,
          skill_nodes, relationships, tasks, unique_keys, foreign_keys>>

graph_vars == <<skill_nodes, relationships, tasks, unique_keys, foreign_keys>>

\* no skill graph rows and no coroutine in flight
GraphIdle ==
    /\ skill_nodes = << >>
    /\ relationships = << >>
    /\ tasks = << >>
    /\ unique_keys = FALSE
    /\ foreign_keys = FALSE

None == "None"
NoCall == [op |-> "none"]

-----------------------------------------------------------------------------
(* Exact rational arithmetic standing for the float arithmetic of the code *)

RECURSIVE GCD(_, _)
GCD(a, b) == IF b = 0 THEN a ELSE GCD(b, a % b)

Abs(x) == IF x < 0 THEN -x ELSE x

\* n/d in lowest terms, d > 0
R(n, d) ==
    LET g == GCD(Abs(n), Abs(d))
        s == IF d < 0 THEN -1 ELSE 1
    IN  <<(s * n) \div g, (s * d) \div g>>

Zero == <<0, 1>>
One == <<1, 1>>
RInt(k) == <<k, 1>>
RAdd(a, b) == R(a[1] * b[2] + b[1] * a[2], a[2] * b[2])
RSub(a, b) == R(a[1] * b[2] - b[1] * a[2], a[2] * b[2])
RMul(a, b) == R(a[1] * b[1], a[2] * b[2])
RDiv(a, b) == R(a[1] * b[2], a[2] * b[1])
RLeq(a, b) == a[1] * b[2] <= b[1] * a[2]
RLt(a, b) == a[1] * b[2] < b[1] * a[2]
RGeq(a, b) == RLeq(b, a)
RGt(a, b) == RLt(b, a)
RMin(a, b) == IF RLeq(a, b) THEN a ELSE b
RMax(a, b) == IF RGeq(a, b) THEN a ELSE b

-----------------------------------------------------------------------------
(* The five-value skill scale and the per-skill functions                  *)

SkillLevel == {"novice", "beginner", "intermediate", "advanced", "expert"}

\* level_order of both _calculate_gap_severity
level_order(level) ==
    CASE level = "novice" -> 0
      [] level = "beginner" -> 1
      [] level = "intermediate" -> 2
      [] level = "advanced" -> 3
      [] level = "expert" -> 4
      [] OTHER -> 0

\* mutant of level_scores: the 0-based table of _calculate_gap_severity
level_scores_zero_based(level, default) ==
    level_order(level)

\* level_scores of _calculate_skill_match_score, with dict.get's default
level_scores(level, default) ==
    CASE level = "novice" -> 1
      [] level = "beginner" -> 2
      [] level = "intermediate" -> 3
      [] level = "advanced" -> 4
      [] level = "expert" -> 5
      [] OTHER -> default

calculate_skill_match_score(current_level, required_level) ==
    IF current_level = None
    THEN Zero
    ELSE LET current_score == level_scores(current_level, 0)
             required_score == level_scores(required_level, 1)
         IN  IF current_score >= required_score
             THEN One
             ELSE R(current_score, required_score)

\* _calculate_gap_severity, the branch of a skill the profile has no record of
missing_skill_severity_expert_only(required_level, is_critical) ==
    IF is_critical THEN "critical"
    ELSE IF required_level \in {"expert"} THEN "high"
    ELSE "medium"

missing_skill_severity(required_level, is_critical) ==
    IF is_critical THEN "critical"
    ELSE IF required_level \in {"advanced", "expert"} THEN "high"
    ELSE "medium"

\* _calculate_gap_severity, the branch on the gap of a skill the profile has
severity_of_gap_off_by_one(gap, is_critical) ==
    IF gap <= 0 THEN "none"
    ELSE IF gap = 1 THEN "low"
    ELSE IF gap <= 3 THEN "medium"
    ELSE IF ~is_critical THEN "high" ELSE "critical"

\* mutant of severity_of_gap: a gap of one level counts as no gap
severity_of_gap_tolerant(gap, is_critical) ==
    IF gap <= 1 THEN "none"
    ELSE IF gap = 2 THEN "medium"
    ELSE IF ~is_critical THEN "high" ELSE "critical"

severity_of_gap(gap, is_critical) ==
    IF gap <= 0 THEN "none"
    ELSE IF gap = 1 THEN "low"
    ELSE IF gap = 2 THEN "medium"
    ELSE IF ~is_critical THEN "high" ELSE "critical"

calculate_gap_severity(current_level, required_level, is_critical) ==
    IF current_level = None
    THEN missing_skill_severity(required_level, is_critical)
    ELSE LET current_score == level_order(current_level)
             required_score == level_order(required_level)
             gap == required_score - current_score
         IN  severity_of_gap(gap, is_critical)

graph_calculate_gap_severity(current_level, required_level, is_critical) ==
    IF current_level = None
    THEN IF is_critical THEN "critical"
         ELSE IF required_level \in {"advanced", "expert"} THEN "high"
         ELSE "medium"
    ELSE LET gap == level_order(required_level) - level_order(current_level)
         IN  IF gap <= 0 THEN "none"
             ELSE IF gap = 1 THEN "low"
             ELSE IF gap = 2 THEN "medium"
             ELSE IF ~is_critical THEN "high" ELSE "critical"

\* One iteration of the loop of _analyze_skills_match for a requirement whose
\* skill id resolves: the SkillMatch record and whether a SkillGap is appended.
analyze_requirement(current_level, required_level, is_critical, weight) ==
    LET match_score ==
            IF current_level # None
            THEN calculate_skill_match_score(current_level, required_level)
            ELSE Zero
        gap_severity ==
            calculate_gap_severity(current_level, required_level, is_critical)
    IN  [required_level |-> required_level,
         current_level |-> current_level,
         match_score |-> match_score,
         is_critical |-> is_critical,
         weight |-> weight,
         gap_severity |-> gap_severity,
         in_gaps |-> gap_severity # "none"]

\* One iteration of the loop of SkillGraphService.analyze_skill_gaps
graph_analyze_requirement(current_level, required_level, is_critical) ==
    LET gap_severity ==
            graph_calculate_gap_severity(current_level, required_level, is_critical)
    IN  [required_level |-> required_level,
         current_level |-> current_level,
         is_critical |-> is_critical,
         gap_severity |-> gap_severity,
         in_gaps |-> gap_severity # "none"]

-----------------------------------------------------------------------------
(* The scoring engine and the match classifier                             *)

\* mutant of weights: culture_fit weighted 0.25, the weights no longer sum to 1
weights_culture_quarter(key) ==
    CASE key = "hard_skills" -> R(4, 10)
      [] key = "soft_skills" -> R(2, 10)
      [] key = "experience" -> R(25, 100)
      [] key = "culture_fit" -> R(25, 100)

\* self.weights
weights(key) ==
    CASE key = "hard_skills" -> R(4, 10)
      [] key = "soft_skills" -> R(2, 10)
      [] key = "experience" -> R(25, 100)
      [] key = "culture_fit" -> R(15, 100)

MatchType == {"exact", "partial", "potential", "stretch"}

\* self.match_thresholds
match_thresholds(match_type) ==
    CASE match_type = "exact" -> R(9, 10)
      [] match_type = "partial" -> R(7, 10)
      [] match_type = "potential" -> R(5, 10)
      [] match_type = "stretch" -> R(3, 10)

\* total_score of match_employee_to_vacancy
total_score_of(hard, soft, experience, culture_fit) ==
    RAdd(RAdd(RAdd(RMul(hard, weights("hard_skills")),
                   RMul(soft, weights("soft_skills"))),
              RMul(experience, weights("experience"))),
         RMul(culture_fit, weights("culture_fit")))

\* mutant of determine_match_type: strict comparisons with the thresholds
determine_match_type_strict(total_score) ==
    IF RGt(total_score, match_thresholds("exact")) THEN "exact"
    ELSE IF RGt(total_score, match_thresholds("partial")) THEN "partial"
    ELSE IF RGt(total_score, match_thresholds("potential")) THEN "potential"
    ELSE "stretch"

determine_match_type(total_score) ==
    IF RGeq(total_score, match_thresholds("exact")) THEN "exact"
    ELSE IF RGeq(total_score, match_thresholds("partial")) THEN "partial"
    ELSE IF RGeq(total_score, match_thresholds("potential")) THEN "potential"
    ELSE "stretch"

\* effective_weight of _calculate_hard_skills_score
effective_weight_critical_same(match) ==
    RMul(match.weight, One)

effective_weight(match) ==
    RMul(match.weight, IF match.is_critical THEN RInt(2) ELSE One)

RECURSIVE total_weighted_score(_)
total_weighted_score(skill_matches) ==
    IF skill_matches = << >> THEN Zero
    ELSE RAdd(RMul(Head(skill_matches).match_score,
                   effective_weight(Head(skill_matches))),
              total_weighted_score(Tail(skill_matches)))

RECURSIVE total_weight(_)
total_weight(skill_matches) ==
    IF skill_matches = << >> THEN Zero
    ELSE RAdd(effective_weight(Head(skill_matches)),
              total_weight(Tail(skill_matches)))

calculate_hard_skills_score(skill_matches) ==
    IF skill_matches = << >> THEN Zero
    ELSE IF RGt(total_weight(skill_matches), Zero)
         THEN RDiv(total_weighted_score(skill_matches), total_weight(skill_matches))
         ELSE Zero

\* An optional number (a nullable column) is << >> for None and <<n>> for n
NoNumber == << >>

\* Python truthiness of an optional number: None and 0 are false
Truthy(x) == x # NoNumber /\ x[1] # 0

\* mutant of calculate_experience_score: no floor under the deficit ratio
calculate_experience_score_no_floor(experience_years, min_experience_years) ==
    IF ~Truthy(experience_years) THEN R(3, 10)
    ELSE LET required_experience ==
                 IF Truthy(min_experience_years) THEN min_experience_years[1] ELSE 0
             employee_experience == experience_years[1]
         IN  IF employee_experience >= required_experience
             THEN LET excess_years == employee_experience - required_experience
                      bonus == RMin(R(3, 10), RMul(RInt(excess_years), R(5, 100)))
                  IN  RMin(One, RAdd(R(8, 10), bonus))
             ELSE LET deficit_ratio == R(employee_experience, required_experience)
                  IN  RMul(deficit_ratio, R(7, 10))

calculate_experience_score(experience_years, min_experience_years) ==
    IF ~Truthy(experience_years) THEN R(3, 10)
    ELSE LET required_experience ==
                 IF Truthy(min_experience_years) THEN min_experience_years[1] ELSE 0
             employee_experience == experience_years[1]
         IN  IF employee_experience >= required_experience
             THEN LET excess_years == employee_experience - required_experience
                      bonus == RMin(R(3, 10), RMul(RInt(excess_years), R(5, 100)))
                  IN  RMin(One, RAdd(R(8, 10), bonus))
             ELSE LET deficit_ratio == R(employee_experience, required_experience)
                  IN  RMax(R(2, 10), RMul(deficit_ratio, R(7, 10)))

-----------------------------------------------------------------------------
(* The store rows and the matching of one employee with one vacancy        *)

SkillIds == {"s1", "s2", "s3"}
EmployeeIds == {"e1", "e2", "e3"}
VacancyIds == {"v1", "v2", "v3"}
UnknownId == "unknown"

\* vacancy.role is << >> for no role and <<role>> for a role
NoRole == << >>

\* 'lead' in employee.current_role.lower(), on the role titles of the samples
ContainsLead(current_role) == current_role \in {"Team Lead", "Lead Engineer"}

\* factors of _calculate_soft_skills_score, in the order they are appended
soft_skills_factors(employee) ==
    (IF Truthy(employee.experience_years) /\ employee.experience_years[1] > 2
     THEN <<R(1, 10)>> ELSE << >>)
    \o (IF employee.current_role # None /\ ContainsLead(employee.current_role)
        THEN <<R(15, 100)>> ELSE << >>)
    \o (IF Cardinality(employee.departments_worked) > 1
        THEN <<R(1, 10)>> ELSE << >>)

RECURSIVE apply_factors(_, _)
apply_factors(base_score, factors) ==
    IF factors = << >> THEN base_score
    ELSE apply_factors(RMin(One, RAdd(base_score, Head(factors))), Tail(factors))

\* mutant of calculate_soft_skills_score: a base score of 0.5
calculate_soft_skills_score_half_base(employee, vacancy) ==
    apply_factors(R(5, 10), soft_skills_factors(employee))

\* _calculate_soft_skills_score: base_score = 0.7, then the factors
calculate_soft_skills_score(employee, vacancy) ==
    apply_factors(R(7, 10), soft_skills_factors(employee))

calculate_culture_fit_score(employee, vacancy) ==
    LET base_score == R(75, 100)
        with_department ==
            IF employee.department = vacancy.department
            THEN RAdd(base_score, R(1, 10)) ELSE base_score
        with_location ==
            IF employee.location = vacancy.location
            THEN RAdd(with_department, R(5, 100)) ELSE with_department
        with_mobility ==
            IF employee.mobility_ready
            THEN RAdd(with_location, R(1, 10)) ELSE with_location
    IN  RMin(One, with_mobility)

\* the requirement list _analyze_skills_match reads: the role's, else the override
required_skills_of(vacancy) ==
    IF vacancy.role # NoRole /\ vacancy.role[1].skills_required # << >>
    THEN vacancy.role[1].skills_required
    ELSE vacancy.required_skills_override

\* _analyze_skills_match: the SkillMatch records of the requirements whose
\* skill is in the SkillGraph table, in the order of the requirements
RECURSIVE analyze_skills_match(_, _, _)
analyze_skills_match(employee, required_skills, skill_graph) ==
    IF required_skills = << >> THEN << >>
    ELSE LET requirements == Head(required_skills)
             rest == analyze_skills_match(employee, Tail(required_skills),
                                          skill_graph)
         IN  IF requirements.skill_id \notin skill_graph
             THEN rest
             ELSE <<[skill_id |-> requirements.skill_id] @@
                    analyze_requirement(employee.skills[requirements.skill_id],
                                        requirements.min_level,
                                        requirements.is_critical,
                                        requirements.weight)>> \o rest

skill_gaps_of(skill_matches) ==
    SelectSeq(skill_matches, LAMBDA m : m.in_gaps)

\* the MatchResult record of match_employee_to_vacancy
MatchResult(employee_id, vacancy_id, total_score, hard, soft, experience, culture_fit, skill_matches) ==
    [employee_id |-> employee_id,
     vacancy_id |-> vacancy_id,
     total_score |-> total_score,
     hard_skills_score |-> hard,
     soft_skills_score |-> soft,
     experience_score |-> experience,
     culture_fit_score |-> culture_fit,
     match_type |-> determine_match_type(total_score),
     skill_matches |-> skill_matches,
     skill_gaps |-> skill_gaps_of(skill_matches)]

\* the total score of the four component scores, and the MatchResult
totalled(employee_id, vacancy_id, hard, soft, experience, culture_fit, skill_matches) ==
    MatchResult(employee_id, vacancy_id,
                total_score_of(hard, soft, experience, culture_fit),
                hard, soft, experience, culture_fit, skill_matches)

\* the component scores of the analysed skills, and the MatchResult
scored(employee_id, employee, vacancy_id, vacancy, skill_matches) ==
    totalled(employee_id, vacancy_id,
             calculate_hard_skills_score(skill_matches),
             calculate_soft_skills_score(employee, vacancy),
             calculate_experience_score(employee.experience_years,
                                        vacancy.min_experience_years),
             calculate_culture_fit_score(employee, vacancy),
             skill_matches)

\* the MatchResult match_employee_to_vacancy builds for two rows that exist
match_result_of(employee_id, employee, vacancy_id, vacancy, skill_graph) ==
    scored(employee_id, employee, vacancy_id, vacancy,
           analyze_skills_match(employee, required_skills_of(vacancy), skill_graph))

\* the Match row _save_match_result writes
match_row(match_result) ==
    [employee_id |-> match_result.employee_id,
     vacancy_id |-> match_result.vacancy_id,
     score_total |-> match_result.total_score,
     score_hard |-> match_result.hard_skills_score,
     score_soft |-> match_result.soft_skills_score,
     gaps |-> match_result.skill_gaps]

\* mutant of existing_matches: the query selects on the employee alone
existing_matches_same_employee(match_rows, match_result) ==
    {i \in DOMAIN match_rows :
        match_rows[i].employee_id = match_result.employee_id}

\* select(Match).where(employee_id == ..., vacancy_id == ...): the places of
\* the rows of the pair
existing_matches(match_rows, match_result) ==
    {i \in DOMAIN match_rows :
        /\ match_rows[i].employee_id = match_result.employee_id
        /\ match_rows[i].vacancy_id = match_result.vacancy_id}

\* existing_match.score_total = ..., written at the commit
updated_match(match_rows, existing_match, match_result) ==
    [match_rows EXCEPT ![existing_match] = match_row(match_result)]

\* session.add(new_match), written at the commit
added_match(match_rows, match_result) ==
    Append(match_rows, match_row(match_result))

\* _save_match_result run without interruption: update the row of the pair,
\* or add it; scalar_one_or_none() raises when the pair has several rows and
\* the except clause rolls back
save_match_result(match_rows, match_result) ==
    IF Cardinality(existing_matches(match_rows, match_result)) > 1
    THEN match_rows
    ELSE IF existing_matches(match_rows, match_result) = {}
    THEN added_match(match_rows, match_result)
    ELSE updated_match(match_rows,
                       CHOOSE i \in existing_matches(match_rows, match_result) : TRUE,
                       match_result)

\* mutant of match_employee_to_vacancy: a missing row gives a MatchResult of
\* zero scores instead of None
match_employee_to_vacancy_zero_result(db, employee_id, vacancy_id) ==
    IF employee_id \notin DOMAIN db.employees \/ vacancy_id \notin DOMAIN db.vacancies
    THEN <<MatchResult(employee_id, vacancy_id, Zero, Zero, Zero, Zero, Zero, << >>)>>
    ELSE <<match_result_of(employee_id, db.employees[employee_id],
                           vacancy_id, db.vacancies[vacancy_id], db.skills)>>

\* what match_employee_to_vacancy returns: << >> (None) when a row is missing,
\* else <<MatchResult>>
match_employee_to_vacancy(db, employee_id, vacancy_id) ==
    IF employee_id \notin DOMAIN db.employees \/ vacancy_id \notin DOMAIN db.vacancies
    THEN << >>
    ELSE <<match_result_of(employee_id, db.employees[employee_id],
                           vacancy_id, db.vacancies[vacancy_id], db.skills)>>

\* the Match rows after match_employee_to_vacancy returned match
saved(match_rows, match, save_result) ==
    IF save_result /\ match # << >>
    THEN save_match_result(match_rows, match[1])
    ELSE match_rows

-----------------------------------------------------------------------------
(* The ranking operations                                                  *)

\* the rows a SELECT without ORDER BY returns, in each order the store may
\* return them
RowOrders(ids) ==
    {order \in [1..Cardinality(ids) -> ids] :
        \A i, j \in 1..Cardinality(ids) : i # j => order[i] # order[j]}

\* mutant of eligible_employees: the mobility_ready condition is missing
eligible_employees_active_only(employee_rows) ==
    {id \in DOMAIN employee_rows : employee_rows[id].is_active}

\* employees_query of find_candidates_for_vacancy
eligible_employees(employee_rows) ==
    {id \in DOMAIN employee_rows :
        employee_rows[id].is_active /\ employee_rows[id].mobility_ready}

\* vacancies_query of find_roles_for_employee
eligible_vacancies(vacancy_rows) ==
    {id \in DOMAIN vacancy_rows :
        vacancy_rows[id].is_active /\ vacancy_rows[id].status = "open"}

\* the condition under which a match is appended to the result list
is_kept(match, min_score, include_stretch) ==
    /\ match # << >>
    /\ RGeq(match[1].total_score, min_score)
    /\ ~(~include_stretch /\ match[1].match_type = "stretch")

\* mutant of insert_sorted: ascending order (reverse=True forgotten)
RECURSIVE insert_sorted_ascending(_, _)
insert_sorted_ascending(sorted, entry) ==
    IF sorted = << >> THEN <<entry>>
    ELSE IF RGt(Head(sorted).match_result.total_score,
                entry.match_result.total_score)
         THEN <<entry>> \o sorted
         ELSE <<Head(sorted)>> \o insert_sorted_ascending(Tail(sorted), entry)

\* list.sort(key=total_score, reverse=True) is stable: an entry goes behind
\* every entry of greater or equal score that came before it
RECURSIVE insert_sorted(_, _)
insert_sorted(sorted, entry) ==
    IF sorted = << >> THEN <<entry>>
    ELSE IF RLt(Head(sorted).match_result.total_score,
                entry.match_result.total_score)
         THEN <<entry>> \o sorted
         ELSE <<Head(sorted)>> \o insert_sorted(Tail(sorted), entry)

RECURSIVE sort_by_total_score(_, _)
sort_by_total_score(sorted, entries) ==
    IF entries = << >> THEN sorted
    ELSE sort_by_total_score(insert_sorted(sorted, Head(entries)), Tail(entries))

\* candidates[:limit]
first(entries, limit) ==
    SubSeq(entries, 1, IF Len(entries) < limit THEN Len(entries) ELSE limit)

\* the Match rows after the calls of match_employee_to_vacancy that returned
\* these matches, in this order
RECURSIVE saved_all(_, _)
saved_all(match_rows, found) ==
    IF found = << >> THEN match_rows
    ELSE saved_all(saved(match_rows, Head(found), TRUE), Tail(found))

\* match_employee_to_vacancy with its except clause: a computation that
\* raises (a query or a collaborator fails) returns None
returned_match(match, raises) ==
    IF raises THEN << >> ELSE match

match_or_none(db, employee_id, vacancy_id, raises) ==
    returned_match(match_employee_to_vacancy(db, employee_id, vacancy_id), raises)

\* what match_employee_to_vacancy computes for each employee of a list
RECURSIVE employee_matches(_, _, _)
employee_matches(db, ids, vacancy_id) ==
    IF ids = << >> THEN << >>
    ELSE <<match_employee_to_vacancy(db, Head(ids), vacancy_id)>>
            \o employee_matches(db, Tail(ids), vacancy_id)

\* what match_employee_to_vacancy computes for each vacancy of a list
RECURSIVE vacancy_matches(_, _, _)
vacancy_matches(db, ids, employee_id) ==
    IF ids = << >> THEN << >>
    ELSE <<match_employee_to_vacancy(db, employee_id, Head(ids))>>
            \o vacancy_matches(db, Tail(ids), employee_id)

\* the ids of a set of rows as a list
row_list(ids) == CHOOSE order \in RowOrders(ids) : TRUE

place_of(ids, id) == CHOOSE k \in 1..Len(ids) : ids[k] = id

\* the loop of a ranking operation over the rows in row order: what
\* match_employee_to_vacancy returns for each; computed[k] is what it computes
\* for ids[k], and failing holds the rows whose computation raises
matched_rows(ids, computed, order, failing) ==
    [i \in 1..Len(order) |->
        returned_match(computed[place_of(ids, order[i])], order[i] \in failing)]

\* the CandidateRanking entries appended for the matches that are kept
kept_candidates(found) ==
    [i \in 1..Len(found) |->
        [employee_id |-> found[i][1].employee_id,
         match_result |-> found[i][1],
         rank |-> 0]]

\* for i, candidate in enumerate(candidates[:limit]): candidate.rank = i + 1
ranked(returned) ==
    [i \in 1..Len(returned) |-> [returned[i] EXCEPT !.rank = i]]

\* mutant of ranking_of: only the matches that are kept are saved
ranking_of_saving_kept(db, found, args) ==
    [result |->
        ranked(first(sort_by_total_score(<< >>,
                   kept_candidates(
                       SelectSeq(found, LAMBDA match :
                           is_kept(match, args.min_score, args.include_stretch)))),
                     args.limit)),
     matches |-> saved_all(db.matches,
                           SelectSeq(found, LAMBDA match :
                               is_kept(match, args.min_score, args.include_stretch)))]

ranking_of(db, found, args) ==
    [result |->
        ranked(first(sort_by_total_score(<< >>,
                   kept_candidates(
                       SelectSeq(found, LAMBDA match :
                           is_kept(match, args.min_score, args.include_stretch)))),
                     args.limit)),
     matches |-> saved_all(db.matches, found)]

find_candidates_for_vacancy(db, args, ids, computed, order, failing) ==
    IF args.vacancy_id \notin DOMAIN db.vacancies
    THEN [result |-> << >>, matches |-> db.matches]
    ELSE ranking_of(db, matched_rows(ids, computed, order, failing), args)

kept_roles(found) ==
    [i \in 1..Len(found) |->
        [vacancy_id |-> found[i][1].vacancy_id, match_result |-> found[i][1]]]

find_roles_for_employee(db, args, ids, computed, order, failing) ==
    [result |->
        first(sort_by_total_score(<< >>,
                  kept_roles(
                      SelectSeq(matched_rows(ids, computed, order, failing),
                                LAMBDA match :
                                    is_kept(match, args.min_score,
                                            args.include_stretch)))),
              args.limit),
     matches |-> db.matches]

-----------------------------------------------------------------------------
(* Specifications of the pure functions.  The store is empty; the initial  *)
(* state holds the calls to make (the inputs), and an action makes the     *)
(* next pending call: first prev, then ret.                                *)

EmptyStore ==
    /\ employees = << >>
    /\ vacancies = << >>
    /\ skills = {}
    /\ matches = << >>
    /\ GraphIdle

StoreUnchanged == UNCHANGED <<employees, vacancies, skills, matches, graph_vars>>

\* failed holds the pairs of the call whose computation raised
Call(op, args) ==
    [op |-> op, args |-> args, done |-> FALSE, result |-> None, failed |-> {}]
IsPending(call, op) == call.op = op /\ ~call.done
Returned(call, op) == call.op = op /\ call.done

Eval(call) ==
    CASE call.op = "analyze_requirement" ->
            analyze_requirement(call.args.current_level, call.args.required_level,
                                call.args.is_critical, call.args.weight)
      [] call.op = "graph_analyze_requirement" ->
            graph_analyze_requirement(call.args.current_level,
                                      call.args.required_level,
                                      call.args.is_critical)
      [] call.op = "total_score" ->
            LET total_score ==
                    total_score_of(call.args.hard_skills_score,
                                   call.args.soft_skills_score,
                                   call.args.experience_score,
                                   call.args.culture_fit_score)
            IN  [total_score |-> total_score,
                 match_type |-> determine_match_type(total_score)]
      [] call.op = "determine_match_type" ->
            determine_match_type(call.args.total_score)
      [] call.op = "calculate_hard_skills_score" ->
            calculate_hard_skills_score(call.args.skill_matches)
      [] call.op = "calculate_experience_score" ->
            calculate_experience_score(call.args.experience_years,
                                       call.args.min_experience_years)

MakeCall(op) ==
    /\ StoreUnchanged
    /\ IF IsPending(prev, op)
       THEN /\ prev' = [prev EXCEPT !.done = TRUE, !.result = Eval(prev)]
            /\ UNCHANGED ret
       ELSE /\ IsPending(ret, op)
            /\ ret' = [ret EXCEPT !.done = TRUE, !.result = Eval(ret)]
            /\ UNCHANGED prev

-----------------------------------------------------------------------------
(* SpecSkill: the per-requirement analysis of both services, two calls     *)

\* declared requirement weights in [0,1]
Weights == {Zero, R(1, 2), One}

RequirementArgs ==
    [current_level : SkillLevel \cup {None}, required_level : SkillLevel,
     is_critical : BOOLEAN, weight : {One}]

InitSkill ==
    /\ EmptyStore
    /\ \E op \in {"analyze_requirement", "graph_analyze_requirement"} :
        /\ ret \in {Call(op, a) : a \in RequirementArgs}
        /\ prev \in {Call(op, a) : a \in RequirementArgs}

AnalyzeRequirement == MakeCall("analyze_requirement")

GraphAnalyzeRequirement == MakeCall("graph_analyze_requirement")

NextSkill == AnalyzeRequirement \/ GraphAnalyzeRequirement

SpecSkill == InitSkill /\ [][NextSkill]_vars

-----------------------------------------------------------------------------
(* SpecTotal: the total score and match type of match_employee_to_vacancy  *)
(* for component scores k / GridDen in [0,1]                               *)

GridDen == 10

Grid == {R(k, GridDen) : k \in 0..GridDen}

InitTotal ==
    /\ EmptyStore
    /\ prev = NoCall
    /\ ret \in {Call("total_score", a) :
                  a \in [hard_skills_score : Grid, soft_skills_score : Grid,
                         experience_score : Grid, culture_fit_score : Grid]}

ComputeTotal == MakeCall("total_score")

SpecTotal == InitTotal /\ [][ComputeTotal]_vars

-----------------------------------------------------------------------------
(* SpecClassify: _determine_match_type on two scores k / ScoreDen          *)

ScoreDen == 200

ScoreArgs == {[total_score |-> R(k, ScoreDen)] : k \in 0..ScoreDen}

InitClassify ==
    /\ EmptyStore
    /\ prev \in {Call("determine_match_type", a) : a \in ScoreArgs}
    /\ ret \in {Call("determine_match_type", a) : a \in ScoreArgs}

DetermineMatchType == MakeCall("determine_match_type")

SpecClassify == InitClassify /\ [][DetermineMatchType]_vars

-----------------------------------------------------------------------------
(* SpecHard: _calculate_hard_skills_score on lists of SkillMatch records   *)

MaxReqs == 2

\* the match scores _calculate_skill_match_score can give
MatchScores ==
    {calculate_skill_match_score(c, r) :
        c \in SkillLevel \cup {None}, r \in SkillLevel}

SkillMatches ==
    [match_score : MatchScores, weight : Weights, is_critical : BOOLEAN]

SkillMatchLists ==
    UNION {[1..n -> SkillMatches] : n \in 0..MaxReqs}

InitHard ==
    /\ EmptyStore
    /\ prev = NoCall
    /\ ret \in {Call("calculate_hard_skills_score", [skill_matches |-> l]) :
                  l \in SkillMatchLists}

CalculateHardSkillsScore == MakeCall("calculate_hard_skills_score")

SpecHard == InitHard /\ [][CalculateHardSkillsScore]_vars

-----------------------------------------------------------------------------
(* SpecExperience: _calculate_experience_score on two pairs of             *)
(* non-negative years                                                      *)

MaxYears == 8

Years == {<<y>> : y \in 0..MaxYears} \cup {NoNumber}

ExperienceArgs == [experience_years : Years, min_experience_years : Years]

InitExperience ==
    /\ EmptyStore
    /\ prev \in {Call("calculate_experience_score", a) : a \in ExperienceArgs}
    /\ ret \in {Call("calculate_experience_score", a) : a \in ExperienceArgs}

CalculateExperienceScore == MakeCall("calculate_experience_score")

SpecExperience == InitExperience /\ [][CalculateExperienceScore]_vars

-----------------------------------------------------------------------------
(* Spec: the matching service over a store.  The initial state holds the   *)
(* store and the call to make, once or twice in a row.                     *)

MaxLimit == 2

SeniorSkills == [s \in SkillIds |->
                    IF s = "s1" THEN "expert" ELSE IF s = "s2" THEN "advanced" ELSE None]
JuniorSkills == [s \in SkillIds |-> IF s = "s1" THEN "novice" ELSE None]
NoSkills == [s \in SkillIds |-> None]

Senior ==
    [is_active |-> TRUE, mobility_ready |-> TRUE, experience_years |-> <<7>>,
     current_role |-> "Team Lead", departments_worked |-> {"Engineering", "Sales"},
     department |-> "Engineering", location |-> "Moscow", skills |-> SeniorSkills]
Junior ==
    [is_active |-> TRUE, mobility_ready |-> TRUE, experience_years |-> <<1>>,
     current_role |-> "Developer", departments_worked |-> {"Sales"},
     department |-> "Sales", location |-> "Kazan", skills |-> JuniorSkills]
Newcomer ==
    [is_active |-> TRUE, mobility_ready |-> TRUE, experience_years |-> NoNumber,
     current_role |-> None, departments_worked |-> {},
     department |-> None, location |-> None, skills |-> NoSkills]
Dormant == [Senior EXCEPT !.is_active = FALSE]
Settled == [Senior EXCEPT !.mobility_ready = FALSE]

EmployeeSamples == {Senior, Junior, Newcomer, Dormant, Settled}

\* the Employee tables of the sample rows, one of each class of tables that
\* are equal up to the names of the ids: no operation reads an id except to
\* compare it, and the store returns the rows in every order
SampleNumber(employee) ==
    CASE employee = Senior -> 1
      [] employee = Junior -> 2
      [] employee = Newcomer -> 3
      [] employee = Dormant -> 4
      [] OTHER -> 5

EmployeeTables ==
    {table \in [EmployeeIds -> EmployeeSamples] :
        /\ SampleNumber(table["e1"]) <= SampleNumber(table["e2"])
        /\ SampleNumber(table["e2"]) <= SampleNumber(table["e3"])}

Requirement(skill_id, min_level, weight, is_critical) ==
    [skill_id |-> skill_id, min_level |-> min_level, weight |-> weight,
     is_critical |-> is_critical]

VacancyRows ==
    [v \in VacancyIds |->
        CASE v = "v1" ->
                [is_active |-> TRUE, status |-> "open",
                 department |-> "Engineering", location |-> "Moscow",
                 min_experience_years |-> <<5>>,
                 role |-> <<[skills_required |->
                                <<Requirement("s1", "expert", One, TRUE),
                                  Requirement("s2", "intermediate", R(1, 2), FALSE),
                                  Requirement("s3", "novice", One, FALSE)>>]>>,
                 required_skills_override |-> << >>]
          [] v = "v2" ->
                [is_active |-> TRUE, status |-> "open",
                 department |-> "Sales", location |-> "Kazan",
                 min_experience_years |-> NoNumber,
                 role |-> NoRole,
                 required_skills_override |->
                    <<Requirement("s1", "beginner", One, FALSE)>>]
          [] v = "v3" ->
                [is_active |-> TRUE, status |-> "closed",
                 department |-> "Engineering", location |-> "Kazan",
                 min_experience_years |-> <<2>>,
                 role |-> <<[skills_required |-> << >>]>>,
                 required_skills_override |-> << >>]]

\* the default min_score of find_candidates_for_vacancy and of
\* find_roles_for_employee
MinScores == {R(3, 10), R(4, 10)}

Calls ==
    {Call("find_candidates_for_vacancy", a) :
        a \in [vacancy_id : VacancyIds \cup {UnknownId}, limit : 1..MaxLimit,
               min_score : MinScores, include_stretch : BOOLEAN]}
    \cup
    {Call("find_roles_for_employee", a) :
        a \in [employee_id : EmployeeIds \cup {UnknownId}, limit : 1..MaxLimit,
               min_score : MinScores, include_stretch : BOOLEAN]}
    \cup
    {Call("match_employee_to_vacancy", a) :
        a \in [employee_id : EmployeeIds \cup {UnknownId},
               vacancy_id : VacancyIds \cup {UnknownId},
               save_result : BOOLEAN]}

Init ==
    /\ employees \in EmployeeTables
    /\ vacancies = VacancyRows
    /\ skills = {"s1", "s2"}
    /\ matches = << >>
    /\ ret \in Calls
    /\ prev \in {NoCall, ret}
    /\ GraphIdle

Db == [employees |-> employees, vacancies |-> vacancies, skills |-> skills,
       matches |-> matches]

\* the call an action makes: the first of prev, ret that is a pending call of op
Turn(op) ==
    IF IsPending(prev, op) THEN "prev"
    ELSE IF IsPending(ret, op) THEN "ret" ELSE "none"

PendingCall(op) == IF Turn(op) = "prev" THEN prev ELSE ret

MaxFailures == 1

\* the sets of pairs of one call whose computation may raise
Failures(ids) == {failing \in SUBSET ids : Cardinality(failing) <= MaxFailures}

\* the call returns out.result and leaves the Match rows out.matches
Return(op, out, failing) ==
    /\ matches' = out.matches
    /\ UNCHANGED <<employees, vacancies, skills, graph_vars>>
    /\ IF Turn(op) = "prev"
       THEN /\ prev' = [prev EXCEPT !.done = TRUE, !.result = out.result,
                                    !.failed = failing]
            /\ UNCHANGED ret
       ELSE /\ ret' = [ret EXCEPT !.done = TRUE, !.result = out.result,
                                  !.failed = failing]
            /\ UNCHANGED prev

\* the call for args, for every order of the rows ids and every set of
\* computations that raise
RankCandidates(args, ids, computed) ==
    \E order \in RowOrders(eligible_employees(employees)) :
       \E failing \in Failures(eligible_employees(employees)) :
        Return("find_candidates_for_vacancy",
               find_candidates_for_vacancy(Db, args, ids, computed, order, failing),
               IF args.vacancy_id \in DOMAIN vacancies THEN failing ELSE {})

FindCandidatesForVacancy ==
    /\ Turn("find_candidates_for_vacancy") # "none"
    /\ RankCandidates(
            PendingCall("find_candidates_for_vacancy").args,
            row_list(eligible_employees(employees)),
            employee_matches(Db, row_list(eligible_employees(employees)),
                             PendingCall("find_candidates_for_vacancy").args.vacancy_id))

RankRoles(args, ids, computed) ==
    \E order \in RowOrders(eligible_vacancies(vacancies)) :
       \E failing \in Failures(eligible_vacancies(vacancies)) :
        Return("find_roles_for_employee",
               find_roles_for_employee(Db, args, ids, computed, order, failing),
               failing)

FindRolesForEmployee ==
    /\ Turn("find_roles_for_employee") # "none"
    /\ RankRoles(
            PendingCall("find_roles_for_employee").args,
            row_list(eligible_vacancies(vacancies)),
            vacancy_matches(Db, row_list(eligible_vacancies(vacancies)),
                            PendingCall("find_roles_for_employee").args.employee_id))

\* the optional MatchResult and the Match rows of one call
matched_and_saved(db, args, match) ==
    [result |-> match, matches |-> saved(db.matches, match, args.save_result)]

MatchEmployeeToVacancy ==
    /\ Turn("match_employee_to_vacancy") # "none"
    /\ \E raises \in BOOLEAN :
        Return("match_employee_to_vacancy",
               matched_and_saved(
                   Db, PendingCall("match_employee_to_vacancy").args,
                   match_or_none(
                       Db, PendingCall("match_employee_to_vacancy").args.employee_id,
                       PendingCall("match_employee_to_vacancy").args.vacancy_id,
                       raises)),
               IF raises THEN {PendingCall("match_employee_to_vacancy").args.employee_id}
               ELSE {})

Next ==
    \/ FindCandidatesForVacancy
    \/ FindRolesForEmployee
    \/ MatchEmployeeToVacancy

Spec == Init /\ [][Next]_vars

-----------------------------------------------------------------------------
(* Properties of the per-requirement analysis, checked under SpecSkill     *)

\* position of a level in the scale novice < beginner < ... < expert, from 1
Ordinal(level) ==
    CHOOSE k \in 1..5 :
        <<"novice", "beginner", "intermediate", "advanced", "expert">>[k] = level

SeverityRank(severity) ==
    CHOOSE k \in 0..4 :
        <<"none", "low", "medium", "high", "critical">>[k + 1] = severity

IsAnalysis(call) ==
    \/ Returned(call, "analyze_requirement")
    \/ Returned(call, "graph_analyze_requirement")

\* C3: for every pair (current, required) of the five levels the per-skill
\* match score is 1.0 iff current >= required in the level order, otherwise it
\* is current_ordinal / required_ordinal and strictly between 0 and 1; a
\* requirement the profile has no record of gets match score 0.0.
C3_SkillMatchScore ==
    Returned(ret, "analyze_requirement") =>
        LET cur == ret.args.current_level
            req == ret.args.required_level
            score == ret.result.match_score
        IN  IF cur = None
            THEN score = Zero
            ELSE /\ (score = One) <=> (Ordinal(cur) >= Ordinal(req))
                 /\ Ordinal(cur) < Ordinal(req) =>
                        /\ score[1] * Ordinal(req) = Ordinal(cur) * score[2]
                        /\ RLt(Zero, score)
                        /\ RLt(score, One)

C3_Witness ==
    /\ Returned(ret, "analyze_requirement")
    /\ ret.args.current_level = "novice"
    /\ ret.args.required_level = "expert"
    /\ ret.result.match_score = <<1, 5>>
    /\ Returned(prev, "analyze_requirement")
    /\ prev.args.current_level = None
    /\ prev.result.match_score = Zero

\* the severity the gap analyzer is specified to give for a recorded skill
SeverityForGap(gap, is_critical) ==
    CASE gap <= 0 -> "none"
      [] gap = 1 -> "low"
      [] gap = 2 -> "medium"
      [] OTHER -> IF is_critical THEN "critical" ELSE "high"

OrdinalGap(call) ==
    Ordinal(call.args.required_level) - Ordinal(call.args.current_level)

\* C4: for a skill the profile has, both gap-severity implementations return
\* none for gap <= 0, low for gap 1, medium for gap 2, and for gap >= 3 high
\* when not critical and critical when critical; for a fixed is_critical the
\* severity is non-decreasing in the gap, and is_critical changes the result
\* only for gaps of 3 or more.
C4_GapSeverity ==
    (IsAnalysis(ret) /\ ret.args.current_level # None) =>
        /\ ret.result.gap_severity =
               SeverityForGap(OrdinalGap(ret), ret.args.is_critical)
        /\ (IsAnalysis(prev) /\ prev.args.current_level # None) =>
               /\ (/\ prev.args.is_critical = ret.args.is_critical
                   /\ OrdinalGap(prev) <= OrdinalGap(ret)) =>
                      SeverityRank(prev.result.gap_severity)
                          <= SeverityRank(ret.result.gap_severity)
               /\ (/\ OrdinalGap(prev) = OrdinalGap(ret)
                   /\ prev.result.gap_severity # ret.result.gap_severity) =>
                      /\ OrdinalGap(ret) >= 3
                      /\ {prev.result.gap_severity, ret.result.gap_severity}
                             = {"high", "critical"}

C4_Witness ==
    /\ Returned(ret, "graph_analyze_requirement")
    /\ ret.args.current_level = "novice"
    /\ ret.args.required_level = "expert"
    /\ ret.args.is_critical
    /\ ret.result.gap_severity = "critical"
    /\ Returned(prev, "graph_analyze_requirement")
    /\ prev.args.current_level = "novice"
    /\ prev.args.required_level = "advanced"
    /\ ~prev.args.is_critical
    /\ prev.result.gap_severity = "high"

\* C5: when the profile has no record of a required skill, the severity is
\* critical if the requirement is critical, otherwise high if the required
\* level is advanced or expert, otherwise medium; it is never none or low, and
\* the skill is put in the gap list.
C5_MissingSkillSeverity ==
    (IsAnalysis(ret) /\ ret.args.current_level = None) =>
        /\ ret.result.gap_severity =
               IF ret.args.is_critical THEN "critical"
               ELSE IF Ordinal(ret.args.required_level) >= Ordinal("advanced")
                    THEN "high"
               ELSE "medium"
        /\ ret.result.gap_severity \notin {"none", "low"}
        /\ ret.result.in_gaps

C5_Witness ==
    /\ Returned(ret, "analyze_requirement")
    /\ ret.args.current_level = None
    /\ ret.args.required_level = "expert"
    /\ ret.args.is_critical
    /\ ret.result.gap_severity = "critical"
    /\ ret.result.in_gaps
    /\ Returned(prev, "analyze_requirement")
    /\ prev.args.current_level = None
    /\ prev.args.required_level = "intermediate"
    /\ ~prev.args.is_critical
    /\ prev.result.gap_severity = "medium"

-----------------------------------------------------------------------------
(* Properties of the scoring engine and the match classifier               *)

\* the numerator k of a grid score k / GridDen
OnGrid(x) == (x[1] * GridDen) \div x[2]

InUnitInterval(x) == RLeq(Zero, x) /\ RLeq(x, One)

\* C1: the total score of a MatchResult is 0.40*hard + 0.20*soft +
\* 0.25*experience + 0.15*culture_fit, with no renormalisation; the four
\* weights sum to 1.0 and the total lies in [0,1] for components in [0,1].
C1_TotalScore ==
    Returned(ret, "total_score") =>
        LET h == OnGrid(ret.args.hard_skills_score)
            s == OnGrid(ret.args.soft_skills_score)
            e == OnGrid(ret.args.experience_score)
            c == OnGrid(ret.args.culture_fit_score)
        IN  /\ ret.result.total_score =
                   R(40 * h + 20 * s + 25 * e + 15 * c, 100 * GridDen)
            /\ InUnitInterval(ret.result.total_score)
            /\ RAdd(RAdd(weights("hard_skills"), weights("soft_skills")),
                    RAdd(weights("experience"), weights("culture_fit"))) = One

C1_Witness ==
    /\ Returned(ret, "total_score")
    /\ ret.args.hard_skills_score = R(8, 10)
    /\ ret.args.soft_skills_score = R(7, 10)
    /\ ret.args.experience_score = R(6, 10)
    /\ ret.args.culture_fit_score = R(9, 10)
    /\ ret.result.total_score = <<149, 200>>

\* the tier the classifier is specified to give a score n/d
TierOf(score) ==
    IF 10 * score[1] >= 9 * score[2] THEN "exact"
    ELSE IF 10 * score[1] >= 7 * score[2] THEN "partial"
    ELSE IF 10 * score[1] >= 5 * score[2] THEN "potential"
    ELSE "stretch"

TierRank(match_type) ==
    CHOOSE k \in 0..3 :
        <<"stretch", "potential", "partial", "exact">>[k + 1] = match_type

\* C2: _determine_match_type gives exact for a score >= 0.9, else partial for
\* >= 0.7, else potential for >= 0.5, else stretch (0.745 is partial), and of
\* two scores the greater one never gets the lower tier.
C2_MatchType ==
    Returned(ret, "determine_match_type") =>
        /\ ret.result \in MatchType
        /\ ret.result = TierOf(ret.args.total_score)
        /\ ret.args.total_score = <<149, 200>> => ret.result = "partial"
        /\ Returned(prev, "determine_match_type") =>
               (RLeq(prev.args.total_score, ret.args.total_score) =>
                    TierRank(prev.result) <= TierRank(ret.result))

C2_Witness ==
    /\ Returned(ret, "determine_match_type")
    /\ ret.args.total_score = <<149, 200>>
    /\ ret.result = "partial"
    /\ Returned(prev, "determine_match_type")
    /\ prev.args.total_score = <<7, 10>>
    /\ prev.result = "partial"

\* the sum of f over a list of SkillMatch records
RECURSIVE SumOver(_, _)
SumOver(f(_), list) ==
    IF list = << >> THEN Zero ELSE RAdd(f(Head(list)), SumOver(f, Tail(list)))

DoubledIfCritical(m) == RMul(m.weight, IF m.is_critical THEN <<2, 1>> ELSE <<1, 1>>)
WeightedMatchScore(m) == RMul(m.match_score, DoubledIfCritical(m))

\* C6: the hard-skill score is the sum of match_score * effective weight over
\* the sum of the effective weights, the effective weight being the declared
\* weight times 2 if critical; it is 0.0 for no requirements and lies in
\* [0,1] for match scores and weights in [0,1].
C6_HardSkillsScore ==
    Returned(ret, "calculate_hard_skills_score") =>
        LET list == ret.args.skill_matches
            W == SumOver(DoubledIfCritical, list)
        IN  /\ list = << >> => ret.result = Zero
            /\ RGt(W, Zero) =>
                   RMul(ret.result, W) = SumOver(WeightedMatchScore, list)
            /\ InUnitInterval(ret.result)

C6_Witness ==
    /\ Returned(ret, "calculate_hard_skills_score")
    /\ Len(ret.args.skill_matches) = 2
    /\ ret.args.skill_matches[1] =
           [match_score |-> Zero, weight |-> One, is_critical |-> TRUE]
    /\ ret.args.skill_matches[2] =
           [match_score |-> One, weight |-> One, is_critical |-> FALSE]
    /\ ret.result = <<1, 3>>

\* C7: the experience score is 0.3 when the profile declares no experience;
\* with profile years >= required years it is
\* min(1.0, 0.8 + min(0.3, 0.05 * excess)); with fewer years it is
\* max(0.2, (years / required) * 0.7), so 1 year against 5 scores 0.2; it
\* always lies in [0.2, 1.0].
C7_ExperienceScore ==
    Returned(ret, "calculate_experience_score") =>
        LET declared == ret.args.experience_years
            years == IF declared = NoNumber THEN 0 ELSE declared[1]
            wanted == ret.args.min_experience_years
            required == IF wanted = NoNumber THEN 0 ELSE wanted[1]
            excess == years - required
            Least(a, b) == IF a <= b THEN a ELSE b
        IN  /\ years = 0 => ret.result = <<3, 10>>
            /\ (years > 0 /\ years >= required) =>
                   ret.result = R(Least(100, 80 + Least(30, 5 * excess)), 100)
            /\ (years > 0 /\ years < required) =>
                   ret.result = IF 7 * years * 5 >= 10 * required
                                THEN R(7 * years, 10 * required)
                                ELSE <<1, 5>>
            /\ (years = 1 /\ required = 5) => ret.result = <<1, 5>>
            /\ RLeq(<<1, 5>>, ret.result)
            /\ RLeq(ret.result, One)
            /\ ret.result # Zero

C7_Witness ==
    /\ Returned(ret, "calculate_experience_score")
    /\ ret.args.experience_years = <<1>>
    /\ ret.args.min_experience_years = <<5>>
    /\ ret.result = <<1, 5>>
    /\ Returned(prev, "calculate_experience_score")
    /\ prev.args.experience_years = <<8>>
    /\ prev.args.min_experience_years = <<2>>
    /\ prev.result = One

-----------------------------------------------------------------------------
(* Properties of the ranking operations, checked under Spec                *)

FC == "find_candidates_for_vacancy"
FR == "find_roles_for_employee"

Total(entry) == entry.match_result.total_score

\* what a returned MatchResult must satisfy for the caller's filter
PassesFilter(match_result, args) ==
    /\ RGeq(match_result.total_score, args.min_score)
    /\ ~args.include_stretch => match_result.match_type # "stretch"

\* the total scores of the Match rows saved for a pair
SavedTotals(employee_id, vacancy_id) ==
    {matches[i].score_total : i \in
        {j \in DOMAIN matches : /\ matches[j].employee_id = employee_id
                                /\ matches[j].vacancy_id = vacancy_id}}

\* C8: every entry returned by find_candidates_for_vacancy is an active,
\* mobility-ready profile whose MatchResult (the one of the pair, as saved)
\* has total_score >= min_score and, when include_stretch is false, is not a
\* stretch match; every entry returned by find_roles_for_employee is an
\* active, open vacancy under the same filter.
C8_OnlyEligibleAboveMinScore ==
    /\ Returned(ret, FC) =>
          \A i \in 1..Len(ret.result) :
              LET c == ret.result[i]
              IN  /\ c.employee_id \in DOMAIN employees
                  /\ employees[c.employee_id].is_active
                  /\ employees[c.employee_id].mobility_ready
                  /\ c.match_result.employee_id = c.employee_id
                  /\ c.match_result.vacancy_id = ret.args.vacancy_id
                  /\ SavedTotals(c.employee_id, ret.args.vacancy_id) =
                        {c.match_result.total_score}
                  /\ PassesFilter(c.match_result, ret.args)
    /\ Returned(ret, FR) =>
          \A i \in 1..Len(ret.result) :
              LET r == ret.result[i]
              IN  /\ r.vacancy_id \in DOMAIN vacancies
                  /\ vacancies[r.vacancy_id].is_active
                  /\ vacancies[r.vacancy_id].status = "open"
                  /\ r.match_result.employee_id = ret.args.employee_id
                  /\ r.match_result.vacancy_id = r.vacancy_id
                  /\ PassesFilter(r.match_result, ret.args)

\* a call for v1 without stretch matches returned the only qualifying profile
\* of a store that also holds a stretch match, an inactive and a settled one
C8_Witness ==
    /\ Returned(ret, FC)
    /\ ret.args.vacancy_id = "v1"
    /\ ~ret.args.include_stretch
    /\ Len(ret.result) = 1
    /\ \E e \in EmployeeIds : ~employees[e].is_active \/ ~employees[e].mobility_ready
    /\ \E e \in EmployeeIds :
          /\ employees[e].is_active /\ employees[e].mobility_ready
          /\ \E total \in SavedTotals(e, "v1") : RLt(total, <<1, 2>>)

\* the eligible rows whose MatchResult passes the caller's filter
QualifyingEmployees(args) ==
    {e \in DOMAIN employees \ ret.failed :
        /\ employees[e].is_active /\ employees[e].mobility_ready
        /\ args.vacancy_id \in DOMAIN vacancies
        /\ PassesFilter(match_result_of(e, employees[e], args.vacancy_id,
                                        vacancies[args.vacancy_id], skills), args)}

QualifyingVacancies(args) ==
    {v \in DOMAIN vacancies \ ret.failed :
        /\ vacancies[v].is_active /\ vacancies[v].status = "open"
        /\ args.employee_id \in DOMAIN employees
        /\ PassesFilter(match_result_of(args.employee_id,
                                        employees[args.employee_id], v,
                                        vacancies[v], skills), args)}

Smaller(a, b) == IF a <= b THEN a ELSE b

\* a list in non-increasing order of total score, of the top entries of the
\* qualifying set, cut at limit; ScoreOf gives a qualifying id's total score
IsTopRanking(result, ids, qualifying, ScoreOf(_), limit) ==
    /\ \A i, j \in 1..Len(result) : i < j => RGeq(Total(result[i]), Total(result[j]))
    /\ \A i, j \in 1..Len(result) : i # j => ids[i] # ids[j]
    /\ Len(result) = Smaller(limit, Cardinality(qualifying))
    /\ \A i \in 1..Len(result) :
          /\ ids[i] \in qualifying
          /\ Total(result[i]) = ScoreOf(ids[i])
    /\ \A q \in qualifying :
          (\A i \in 1..Len(result) : ids[i] # q) =>
              \A i \in 1..Len(result) : RLeq(ScoreOf(q), Total(result[i]))

\* C9: both ranking operations return their results in non-increasing order
\* of total score, at most limit of them, and they are the highest-scoring
\* qualifying ones; find_candidates_for_vacancy numbers them 1..N in order.
C9_RankedTopLimit ==
    /\ Returned(ret, FC) =>
          LET ScoreOf(e) ==
                  match_result_of(e, employees[e], ret.args.vacancy_id,
                                  vacancies[ret.args.vacancy_id], skills).total_score
          IN  /\ IsTopRanking(ret.result,
                              [i \in 1..Len(ret.result) |-> ret.result[i].employee_id],
                              QualifyingEmployees(ret.args), ScoreOf, ret.args.limit)
              /\ \A i \in 1..Len(ret.result) : ret.result[i].rank = i
    /\ Returned(ret, FR) =>
          LET ScoreOf(v) ==
                  match_result_of(ret.args.employee_id,
                                  employees[ret.args.employee_id], v,
                                  vacancies[v], skills).total_score
          IN  IsTopRanking(ret.result,
                           [i \in 1..Len(ret.result) |-> ret.result[i].vacancy_id],
                           QualifyingVacancies(ret.args), ScoreOf, ret.args.limit)

\* three qualifying profiles of different scores, the two best returned
C9_Witness ==
    /\ Returned(ret, FC)
    /\ ret.args.limit = 2
    /\ Cardinality(QualifyingEmployees(ret.args)) = 3
    /\ Len(ret.result) = 2
    /\ RGt(Total(ret.result[1]), Total(ret.result[2]))
    /\ ret.result[1].rank = 1
    /\ ret.result[2].rank = 2
    /\ \E e \in EmployeeIds :
          /\ \A i \in 1..2 : ret.result[i].employee_id # e
          /\ \E total \in SavedTotals(e, ret.args.vacancy_id) :
                RLt(total, Total(ret.result[2]))

\* C10: re-running find_candidates_for_vacancy with the same arguments on
\* unchanged employees, vacancies and skills returns the identical ordered
\* list, ranks and tie-breaks included.
C10_RerunIdentical ==
    (/\ Returned(prev, FC)
     /\ Returned(ret, FC)
     /\ prev.args = ret.args
     /\ prev.failed = {}
     /\ ret.failed = {}) => prev.result = ret.result

-----------------------------------------------------------------------------
(* The skill graph store: create_skill as a coroutine.  Every await of the  *)
(* source is a point where another coroutine may run, so a call is a        *)
(* sequence of steps: the existence query, the embedding request (with the  *)
(* parent query), the commit.                                               *)

MaxTasks == 2
Tasks == 1..MaxTasks

\* a name is the sequence of its characters
lower_char(c) ==
    CASE c = "P" -> "p"
      [] c = "Y" -> "y"
      [] c = "S" -> "s"
      [] c = "Q" -> "q"
      [] c = "G" -> "g"
      [] c = "O" -> "o"
      [] OTHER -> c

\* str.lower() and func.lower()
lower(name) == [i \in DOMAIN name |-> lower_char(name[i])]

\* uuid4() of the call of a task: an identity no other row or call has
uuid4(task) == task

\* the embedding the provider computes for a text; the vectors are
\* <<x, y>> with x * x + y * y = 25
embedding_of(name, category) ==
    CASE lower(name) = <<"p", "y">> -> <<4, 3>>
      [] lower(name) = <<"s", "q">> -> <<0, 5>>
      [] OTHER -> IF category = "technical" THEN <<3, 4>> ELSE <<-5, 0>>

\* parent_skill is the row of parent_skill_id, when there is one
parent_skill(rows, parent_skill_id) ==
    IF parent_skill_id = << >> THEN << >>
    ELSE SelectSeq(rows, LAMBDA row : row.id = parent_skill_id[1])

\* SkillGraph(id=uuid4(), name=name, ...)
new_skill(task, args, rows) ==
    [id |-> uuid4(task),
     name |-> args.name,
     category |-> args.category,
     parent_skill_id |-> args.parent_skill_id,
     skill_path |->
        IF parent_skill(rows, args.parent_skill_id) # << >>
        THEN parent_skill(rows, args.parent_skill_id)[1].skill_path
                \o <<args.name>>
        ELSE <<args.name>>,
     level |->
        IF parent_skill(rows, args.parent_skill_id) # << >>
        THEN parent_skill(rows, args.parent_skill_id)[1].level + 1
        ELSE 1,
     embedding |-> embedding_of(args.name, args.category),
     is_active |-> TRUE]

\* select(SkillGraph).where(func.lower(SkillGraph.name) == name.lower())
existing_skills_exact_name(rows, name) ==
    SelectSeq(rows, LAMBDA row : row.name = name)

existing_skills(rows, name) ==
    SelectSeq(rows, LAMBDA row : lower(row.name) = lower(name))

\* the store holds a skill of the name of the row, ignoring case: where the
\* table has the unique key, it rejects the row
duplicate_skill(rows, row) ==
    \E i \in DOMAIN rows : lower(rows[i].name) = lower(row.name)

\* the row names a parent that is no row of the store: where the table has
\* the foreign key, it rejects the row
dangling_parent(rows, row) ==
    /\ row.parent_skill_id # << >>
    /\ \A i \in DOMAIN rows : rows[i].id # row.parent_skill_id[1]

\* the commit of the row fails
rejected_skill(rows, row) ==
    \/ unique_keys /\ duplicate_skill(rows, row)
    \/ foreign_keys /\ dangling_parent(rows, row)

InFlight(task) == tasks[task].pc \notin {"start", "done"}

\* the coroutine of a task ends and returns result (<< >> is None)
Done(task, result) ==
    tasks' = [tasks EXCEPT ![task].pc = "done", ![task].result = result]

\* result = await session.execute(existing_query);
\* existing_skill = result.scalar_one_or_none(), which raises when the query
\* selects several rows; the except clause then returns None
CreateSkillQuery(task) ==
    /\ tasks[task].op = "create_skill"
    /\ tasks[task].pc = "start"
    /\ IF Len(existing_skills(skill_nodes, tasks[task].args.name)) = 1
       THEN tasks' = [tasks EXCEPT
                ![task].pc = "done",
                ![task].result =
                    <<existing_skills(skill_nodes, tasks[task].args.name)[1].id>>,
                ![task].overlapped = \E other \in Tasks : InFlight(other),
                ![task].before = {other \in Tasks : tasks[other].pc = "done"}]
       ELSE IF Len(existing_skills(skill_nodes, tasks[task].args.name)) > 1
       THEN tasks' = [tasks EXCEPT
                ![task].pc = "done",
                ![task].result = << >>,
                ![task].overlapped = \E other \in Tasks : InFlight(other),
                ![task].before = {other \in Tasks : tasks[other].pc = "done"}]
       ELSE tasks' = [tasks EXCEPT
                ![task].pc = "embedding",
                ![task].overlapped = \E other \in Tasks : InFlight(other),
                ![task].before = {other \in Tasks : tasks[other].pc = "done"}]
    /\ UNCHANGED <<skill_nodes, relationships, unique_keys, foreign_keys>>

\* embedding = await self.ai_service.get_embedding(embedding_text), then the
\* parent query and the new row
CreateSkillEmbedding(task) ==
    /\ tasks[task].op = "create_skill"
    /\ tasks[task].pc = "embedding"
    /\ tasks' = [tasks EXCEPT
            ![task].pc = "commit",
            ![task].new_skill = <<new_skill(task, tasks[task].args, skill_nodes)>>]
    /\ UNCHANGED <<skill_nodes, relationships, unique_keys, foreign_keys>>

\* get_embedding raises AIServiceError; the except clause returns None
CreateSkillEmbeddingFails(task) ==
    /\ tasks[task].op = "create_skill"
    /\ tasks[task].pc = "embedding"
    /\ Done(task, << >>)
    /\ UNCHANGED <<skill_nodes, relationships, unique_keys, foreign_keys>>

\* session.add(new_skill); await session.commit(); return new_skill.id
CreateSkillCommit(task) ==
    /\ tasks[task].op = "create_skill"
    /\ tasks[task].pc = "commit"
    /\ ~rejected_skill(skill_nodes, tasks[task].new_skill[1])
    /\ skill_nodes' = Append(skill_nodes, tasks[task].new_skill[1])
    /\ Done(task, <<tasks[task].new_skill[1].id>>)
    /\ UNCHANGED <<relationships, unique_keys, foreign_keys>>

\* the store rejects the row: commit raises, the except
\* clause returns None
CreateSkillCommitRejected(task) ==
    /\ tasks[task].op = "create_skill"
    /\ tasks[task].pc = "commit"
    /\ rejected_skill(skill_nodes, tasks[task].new_skill[1])
    /\ Done(task, << >>)
    /\ UNCHANGED <<skill_nodes, relationships, unique_keys, foreign_keys>>

Task(op, args) ==
    [op |-> op, args |-> args, pc |-> "start", result |-> << >>,
     overlapped |-> FALSE, before |-> {}, new_skill |-> << >>]

SkillArgs(name, category, parent_skill_id) ==
    [name |-> name, category |-> category, parent_skill_id |-> parent_skill_id]

CreateSkillCalls ==
    {Task("create_skill", args) : args \in
        {SkillArgs(<<"P", "y">>, "technical", << >>),
         SkillArgs(<<"p", "y">>, "technical", << >>),
         SkillArgs(<<"P", "Y">>, "tool", <<100>>),
         SkillArgs(<<"p", "y">>, "technical", <<100>>),
         SkillArgs(<<"S", "Q">>, "technical", << >>),
         SkillArgs(<<"G", "o">>, "soft_skills", <<999>>)}}

\* the skill graph before the calls: one root skill
SkillRows ==
    <<[id |-> 100, name |-> <<"S", "q">>, category |-> "technical",
       parent_skill_id |-> << >>, skill_path |-> <<<<"S", "q">>>>, level |-> 1,
       embedding |-> <<0, 5>>, is_active |-> TRUE]>>

MatchingIdle ==
    /\ employees = << >>
    /\ vacancies = << >>
    /\ skills = {}
    /\ matches = << >>
    /\ ret = NoCall
    /\ prev = NoCall

MatchingUnchanged == UNCHANGED <<employees, vacancies, skills, matches, ret, prev>>

InitCreate ==
    /\ MatchingIdle
    /\ skill_nodes = SkillRows
    /\ relationships = << >>
    /\ tasks \in [Tasks -> CreateSkillCalls]
    /\ unique_keys \in BOOLEAN
    /\ foreign_keys \in BOOLEAN

CreateSkill(task) ==
    /\ MatchingUnchanged
    /\ \/ CreateSkillQuery(task)
       \/ CreateSkillEmbedding(task)
       \/ CreateSkillEmbeddingFails(task)
       \/ CreateSkillCommit(task)
       \/ CreateSkillCommitRejected(task)

NextCreate == \E task \in Tasks : CreateSkill(task)

SpecCreate == InitCreate /\ [][NextCreate]_vars

-----------------------------------------------------------------------------
(* Claims about create_skill                                               *)

\* no call started while another call was between its query and its return
Sequential == \A task \in Tasks : ~tasks[task].overlapped

SameNameIgnoringCase(a, b) == lower(tasks[a].args.name) = lower(tasks[b].args.name)

\* call a returned an identity before call b started, and b has the same
\* name ignoring case
Collides(a, b) ==
    /\ a # b
    /\ tasks[a].op = "create_skill" /\ tasks[b].op = "create_skill"
    /\ a \in tasks[b].before
    /\ tasks[a].result # << >>
    /\ SameNameIgnoringCase(a, b)

RowsNamed(name) == {i \in DOMAIN skill_nodes : lower(skill_nodes[i].name) = lower(name)}

C11_SameIdentity ==
    Sequential =>
        \A a, b \in Tasks :
            (Collides(a, b) /\ tasks[b].pc = "done") =>
                /\ tasks[b].result = tasks[a].result
                /\ Cardinality(RowsNamed(tasks[b].args.name)) = 1

C11_NoRowAdded ==
    \A a, b \in Tasks :
        (Sequential' /\ Collides(a, b)' /\ tasks'[b] # tasks[b]) =>
            skill_nodes' = skill_nodes

\* C11: in a run of sequential create_skill calls, a call whose name equals,
\* ignoring case, the name of an earlier call that returned an identity
\* returns that same identity and adds no row, and the store holds exactly
\* one skill of that lower-cased name.
C11_CreateSkillIdempotent == [](C11_SameIdentity) /\ [][C11_NoRowAdded]_vars

\* "Py" was created, then "py" (or "PY") was asked for and returned
C11_Witness ==
    \E a, b \in Tasks :
        /\ Sequential
        /\ Collides(a, b)
        /\ tasks[a].args.name # tasks[b].args.name
        /\ tasks[b].pc = "done"
        /\ tasks[b].result = <<uuid4(a)>>

\* the call of the task found no skill of its name and has not committed yet
BetweenQueryAndCommit(task) ==
    /\ tasks[task].op = "create_skill"
    /\ tasks[task].pc \in {"embedding", "commit"}

\* C12: under every interleaving of create_skill calls the store never holds
\* two skills of one lower-cased name, and no skill of the name of a call
\* appears in the store between the existence query of the call and its
\* commit.
C12_NeverTwoSkillsOfOneName ==
    /\ \A i, j \in DOMAIN skill_nodes :
        lower(skill_nodes[i].name) = lower(skill_nodes[j].name) => i = j
    /\ \A task \in Tasks :
        BetweenQueryAndCommit(task) => RowsNamed(tasks[task].args.name) = {}

\* the commit of the call of the task was rejected: it built its row, ended,
\* and the row is not in the store
LostRace(task) ==
    /\ tasks[task].op = "create_skill"
    /\ tasks[task].pc = "done"
    /\ tasks[task].new_skill # << >>
    /\ \A i \in DOMAIN skill_nodes : skill_nodes[i].id # uuid4(task)

\* C19: a create_skill call whose insert was rejected as a duplicate returns
\* the identity of the skill that holds the name.
C19_LoserReturnsWinner ==
    \A task \in Tasks :
        (LostRace(task) /\ RowsNamed(tasks[task].args.name) # {}) =>
            \E i \in RowsNamed(tasks[task].args.name) :
                tasks[task].result = <<skill_nodes[i].id>>

-----------------------------------------------------------------------------
(* add_skill_relationship as a coroutine: the existence query, then the     *)
(* commit of the changed strength or of the new row.                        *)

RelationshipType == {"prerequisite", "complement", "alternative", "upgrade"}

\* the rows of the triple (from_skill_id, to_skill_id, relationship_type)
existing_relations(rows, args) ==
    SelectSeq(rows, LAMBDA row :
        /\ row.from_skill_id = args.from_skill_id
        /\ row.to_skill_id = args.to_skill_id
        /\ row.relationship_type = args.relationship_type)

\* SkillRelationship(id=uuid4(), ...)
new_relation(task, args) ==
    [id |-> uuid4(task),
     from_skill_id |-> args.from_skill_id,
     to_skill_id |-> args.to_skill_id,
     relationship_type |-> args.relationship_type,
     strength |-> args.strength]

\* the store holds a relationship of the triple of the row: where the table
\* has the unique key, it rejects the row
duplicate_relation(rows, row) ==
    \E i \in DOMAIN rows :
        /\ rows[i].from_skill_id = row.from_skill_id
        /\ rows[i].to_skill_id = row.to_skill_id
        /\ rows[i].relationship_type = row.relationship_type

\* existing_relation.strength = strength, written at the commit
with_strength(rows, id, strength) ==
    [i \in DOMAIN rows |->
        IF rows[i].id = id THEN [rows[i] EXCEPT !.strength = strength]
        ELSE rows[i]]

\* await session.execute(existing_query); scalar_one_or_none() raises when
\* several rows have the triple, and the except clause returns False
AddSkillRelationshipQuery(task) ==
    /\ tasks[task].op = "add_skill_relationship"
    /\ tasks[task].pc = "start"
    /\ IF Len(existing_relations(relationships, tasks[task].args)) > 1
       THEN Done(task, <<FALSE>>)
       ELSE tasks' = [tasks EXCEPT
                ![task].pc = "commit",
                ![task].existing_relation =
                    IF existing_relations(relationships, tasks[task].args) = << >>
                    THEN << >>
                    ELSE <<existing_relations(relationships, tasks[task].args)[1].id>>]
    /\ UNCHANGED <<skill_nodes, relationships, unique_keys, foreign_keys>>

\* await session.commit() of existing_relation.strength = strength
AddSkillRelationshipUpdate(task) ==
    /\ tasks[task].op = "add_skill_relationship"
    /\ tasks[task].pc = "commit"
    /\ tasks[task].existing_relation # << >>
    /\ relationships' = with_strength(relationships, tasks[task].existing_relation[1],
                                      tasks[task].args.strength)
    /\ Done(task, <<TRUE>>)
    /\ UNCHANGED <<skill_nodes, unique_keys, foreign_keys>>

\* await session.commit() of session.add(new_relation)
AddSkillRelationshipInsert(task) ==
    /\ tasks[task].op = "add_skill_relationship"
    /\ tasks[task].pc = "commit"
    /\ tasks[task].existing_relation = << >>
    /\ ~(unique_keys
         /\ duplicate_relation(relationships, new_relation(task, tasks[task].args)))
    /\ relationships' = Append(relationships, new_relation(task, tasks[task].args))
    /\ Done(task, <<TRUE>>)
    /\ UNCHANGED <<skill_nodes, unique_keys, foreign_keys>>

\* the store rejects the new row: commit raises, the except clause returns
\* False
AddSkillRelationshipRejected(task) ==
    /\ tasks[task].op = "add_skill_relationship"
    /\ tasks[task].pc = "commit"
    /\ tasks[task].existing_relation = << >>
    /\ unique_keys
    /\ duplicate_relation(relationships, new_relation(task, tasks[task].args))
    /\ Done(task, <<FALSE>>)
    /\ UNCHANGED <<skill_nodes, relationships, unique_keys, foreign_keys>>

RelationshipTask(args) ==
    [op |-> "add_skill_relationship", args |-> args, pc |-> "start",
     result |-> << >>, existing_relation |-> << >>]

RelationshipArgs(from_skill_id, to_skill_id, relationship_type, strength) ==
    [from_skill_id |-> from_skill_id, to_skill_id |-> to_skill_id,
     relationship_type |-> relationship_type, strength |-> strength]

AddSkillRelationshipCalls ==
    {RelationshipTask(args) : args \in
        {RelationshipArgs(100, 101, "prerequisite", R(1, 2)),
         RelationshipArgs(100, 101, "prerequisite", One),
         RelationshipArgs(100, 101, "complement", R(1, 4)),
         RelationshipArgs(101, 100, "prerequisite", One),
         RelationshipArgs(100, 102, "upgrade", R(3, 4)),
         RelationshipArgs(100, 102, "alternative", One)}}

\* the relationships before the calls
RelationshipRows ==
    <<[id |-> 200, from_skill_id |-> 100, to_skill_id |-> 102,
       relationship_type |-> "upgrade", strength |-> R(1, 2)]>>

InitRelate ==
    /\ MatchingIdle
    /\ skill_nodes = SkillRows
    /\ relationships = RelationshipRows
    /\ tasks \in [Tasks -> AddSkillRelationshipCalls]
    /\ unique_keys \in BOOLEAN
    /\ foreign_keys = FALSE

AddSkillRelationship(task) ==
    /\ MatchingUnchanged
    /\ \/ AddSkillRelationshipQuery(task)
       \/ AddSkillRelationshipUpdate(task)
       \/ AddSkillRelationshipInsert(task)
       \/ AddSkillRelationshipRejected(task)

NextRelate == \E task \in Tasks : AddSkillRelationship(task)

SpecRelate == InitRelate /\ [][NextRelate]_vars

Triple(row) == <<row.from_skill_id, row.to_skill_id, row.relationship_type>>

\* C13: after any interleaving of add_skill_relationship calls the store
\* holds at most one relationship per (from, to, type) triple, and a step of
\* a call whose triple is in the store leaves the number of relationships
\* unchanged and changes nothing but the strength of that relationship, to
\* the strength of the call.
C13_AtMostOnePerTriple ==
    \A i, j \in DOMAIN relationships :
        Triple(relationships[i]) = Triple(relationships[j]) => i = j

C13_ReAddOnlyStrength ==
    \A task \in Tasks :
        (/\ tasks[task].op = "add_skill_relationship"
         /\ tasks[task].pc = "commit"
         /\ tasks'[task].pc = "done"
         /\ duplicate_relation(relationships, tasks[task].args)) =>
            /\ Len(relationships') = Len(relationships)
            /\ \A i \in DOMAIN relationships :
                \/ relationships'[i] = relationships[i]
                \/ /\ Triple(relationships[i]) = Triple(tasks[task].args)
                   /\ relationships'[i] =
                        [relationships[i] EXCEPT !.strength = tasks[task].args.strength]

C13_RelationshipUpsert == [](C13_AtMostOnePerTriple) /\ [][C13_ReAddOnlyStrength]_vars

-----------------------------------------------------------------------------
(* match_employee_to_vacancy as a coroutine: the computation of the         *)
(* MatchResult, then, when save_result is set, the existence query of       *)
(* _save_match_result and its commit.                                       *)

\* the store holds a Match row of the pair of the MatchResult: where the
\* table has the unique key, it rejects a new row
duplicate_match(match_rows, match_result) ==
    existing_matches(match_rows, match_result) # {}

\* the queries of the two rows and the computation of the MatchResult
MatchCompute(task) ==
    /\ tasks[task].op = "match_employee_to_vacancy"
    /\ tasks[task].pc = "start"
    /\ tasks' = [tasks EXCEPT
            ![task].pc =
                IF tasks[task].args.save_result
                   /\ match_employee_to_vacancy(Db, tasks[task].args.employee_id,
                                                tasks[task].args.vacancy_id) # << >>
                THEN "saving" ELSE "done",
            ![task].result =
                match_employee_to_vacancy(Db, tasks[task].args.employee_id,
                                          tasks[task].args.vacancy_id)]
    /\ UNCHANGED matches

\* result = await session.execute(existing_query);
\* existing_match = result.scalar_one_or_none()
SaveQuery(task) ==
    /\ tasks[task].op = "match_employee_to_vacancy"
    /\ tasks[task].pc = "saving"
    /\ Cardinality(existing_matches(matches, tasks[task].result[1])) <= 1
    /\ tasks' = [tasks EXCEPT
            ![task].pc = "commit",
            ![task].existing_match =
                IF existing_matches(matches, tasks[task].result[1]) = {}
                THEN << >>
                ELSE <<CHOOSE i \in existing_matches(matches, tasks[task].result[1]) :
                            TRUE>>]
    /\ UNCHANGED matches

\* mutant of result_after_failed_save: the exception of the save reaches
\* the except clause of match_employee_to_vacancy, which returns None
result_after_failed_save_none(match) == << >>

\* what match_employee_to_vacancy returns after _save_match_result caught an
\* exception: _save_match_result does not raise it again
result_after_failed_save(match) == match

\* except Exception: await session.rollback(), and the return of the call
SaveRolledBack(task) ==
    /\ tasks' = [tasks EXCEPT
            ![task].pc = "done",
            ![task].save_failed = TRUE,
            ![task].result = result_after_failed_save(tasks[task].result)]
    /\ UNCHANGED matches

\* scalar_one_or_none() raises: several rows of the pair; the except clause
\* rolls back and match_employee_to_vacancy returns the MatchResult
SaveQueryRaises(task) ==
    /\ tasks[task].op = "match_employee_to_vacancy"
    /\ tasks[task].pc = "saving"
    /\ Cardinality(existing_matches(matches, tasks[task].result[1])) > 1
    /\ SaveRolledBack(task)

\* the store fails: session.execute or session.commit raises
SaveFails(task) ==
    /\ tasks[task].op = "match_employee_to_vacancy"
    /\ tasks[task].pc \in {"saving", "commit"}
    /\ SaveRolledBack(task)

\* await session.commit() of the changed existing_match
SaveUpdate(task) ==
    /\ tasks[task].op = "match_employee_to_vacancy"
    /\ tasks[task].pc = "commit"
    /\ tasks[task].existing_match # << >>
    /\ matches' = updated_match(matches, tasks[task].existing_match[1],
                                tasks[task].result[1])
    /\ tasks' = [tasks EXCEPT ![task].pc = "done"]

\* await session.commit() of session.add(new_match)
SaveInsert(task) ==
    /\ tasks[task].op = "match_employee_to_vacancy"
    /\ tasks[task].pc = "commit"
    /\ tasks[task].existing_match = << >>
    /\ ~(unique_keys /\ duplicate_match(matches, tasks[task].result[1]))
    /\ matches' = added_match(matches, tasks[task].result[1])
    /\ tasks' = [tasks EXCEPT ![task].pc = "done"]

\* the store rejects the new row: commit raises, the except clause rolls
\* back
SaveRejected(task) ==
    /\ tasks[task].op = "match_employee_to_vacancy"
    /\ tasks[task].pc = "commit"
    /\ tasks[task].existing_match = << >>
    /\ unique_keys /\ duplicate_match(matches, tasks[task].result[1])
    /\ SaveRolledBack(task)

MatchTask(employee_id, vacancy_id, save_result) ==
    [op |-> "match_employee_to_vacancy",
     args |-> [employee_id |-> employee_id, vacancy_id |-> vacancy_id,
               save_result |-> save_result],
     pc |-> "start", result |-> << >>, existing_match |-> << >>,
     save_failed |-> FALSE]

MatchCalls ==
    {MatchTask("e1", "v1", TRUE),
     MatchTask("e1", "v1", FALSE),
     MatchTask("e2", "v1", TRUE),
     MatchTask("e1", "v2", TRUE),
     MatchTask(UnknownId, "v1", TRUE)}

\* a Match row of an earlier computation for (e1, v1), on other data
StaleMatch ==
    [employee_id |-> "e1", vacancy_id |-> "v1", score_total |-> R(1, 2),
     score_hard |-> R(1, 2), score_soft |-> R(1, 2), gaps |-> << >>]

InitSave ==
    /\ employees = [e \in EmployeeIds |->
                        CASE e = "e1" -> Senior [] e = "e2" -> Junior
                          [] OTHER -> Newcomer]
    /\ vacancies = VacancyRows
    /\ skills = {"s1", "s2"}
    /\ matches \in {<< >>, <<StaleMatch>>}
    /\ ret = NoCall
    /\ prev = NoCall
    /\ skill_nodes = << >>
    /\ relationships = << >>
    /\ tasks \in [Tasks -> MatchCalls]
    /\ unique_keys \in BOOLEAN
    /\ foreign_keys = FALSE

MatchAndSave(task) ==
    /\ UNCHANGED <<employees, vacancies, skills, ret, prev, skill_nodes,
                   relationships, unique_keys, foreign_keys>>
    /\ \/ MatchCompute(task)
       \/ SaveQuery(task)
       \/ SaveQueryRaises(task)
       \/ SaveFails(task)
       \/ SaveUpdate(task)
       \/ SaveInsert(task)
       \/ SaveRejected(task)

NextSave == \E task \in Tasks : MatchAndSave(task)

SpecSave == InitSave /\ [][NextSave]_vars

C14_AtMostOnePerPair ==
    \A i, j \in DOMAIN matches :
        (/\ matches[i].employee_id = matches[j].employee_id
         /\ matches[i].vacancy_id = matches[j].vacancy_id) => i = j

\* the call of the task returns after the commit of its save
Commits(task) ==
    /\ tasks[task].op = "match_employee_to_vacancy"
    /\ tasks[task].pc = "commit"
    /\ tasks'[task].pc = "done"
    /\ ~tasks'[task].save_failed
    /\ matches' # matches \/ tasks[task].existing_match # << >>

C14_LastWriteWins ==
    \A task \in Tasks :
        Commits(task) =>
            \A i \in existing_matches(matches', tasks[task].result[1]) :
                matches'[i] = match_row(tasks[task].result[1])

\* C14: after any interleaving of match_employee_to_vacancy calls that save,
\* the store holds at most one Match row per (employee, vacancy) pair, and
\* after the commit of a call the row of its pair carries the scores of its
\* MatchResult.
C14_MatchUpsert == [](C14_AtMostOnePerPair) /\ [][C14_LastWriteWins]_vars

-----------------------------------------------------------------------------
(* search_skills_semantic: the embedding of the query, then one SELECT with *)
(* the filters, the order and the limit.  Embeddings are vectors <<x, y>>   *)
(* of length 5, so that the cosine of two of them is their dot product      *)
(* over 25.                                                                 *)

MaxSearchLimit == 3

\* embedding <=> :query_embedding, the cosine distance of pgvector
cosine_distance(a, b) == RSub(One, R(a[1] * b[1] + a[2] * b[2], 25))

\* 1 - (embedding <=> :query_embedding)
similarity_of(embedding, query_embedding) ==
    RSub(One, cosine_distance(embedding, query_embedding))

InList(x, list) == \E i \in DOMAIN list : list[i] = x

\* the WHERE clauses of query_stmt
is_selected_also_inactive(row, query_embedding, similarity_threshold, categories) ==
    /\ categories # << >> => InList(row.category, categories)
    /\ RGeq(similarity_of(row.embedding, query_embedding), similarity_threshold)

is_selected(row, query_embedding, similarity_threshold, categories) ==
    /\ row.is_active
    /\ categories # << >> => InList(row.category, categories)
    /\ RGeq(similarity_of(row.embedding, query_embedding), similarity_threshold)

\* ORDER BY embedding <=> :query_embedding: a row goes behind every row of
\* smaller or equal distance that the store produced before it
RECURSIVE insert_by_distance(_, _, _)
insert_by_distance(sorted, row, query_embedding) ==
    IF sorted = << >> THEN <<row>>
    ELSE IF RLt(cosine_distance(row.embedding, query_embedding),
                cosine_distance(Head(sorted).embedding, query_embedding))
         THEN <<row>> \o sorted
         ELSE <<Head(sorted)>> \o insert_by_distance(Tail(sorted), row, query_embedding)

RECURSIVE order_by_distance(_, _, _)
order_by_distance(sorted, rows, query_embedding) ==
    IF rows = << >> THEN sorted
    ELSE order_by_distance(insert_by_distance(sorted, Head(rows), query_embedding),
                           Tail(rows), query_embedding)

\* .limit(limit)
limit_rows(rows, limit) ==
    SubSeq(rows, 1, IF Len(rows) < limit THEN Len(rows) ELSE limit)

\* SkillSearchResult(skill_id=skill.id, ..., similarity=similarity)
search_results(rows, query_embedding) ==
    [i \in 1..Len(rows) |->
        [skill_id |-> rows[i].id,
         name |-> rows[i].name,
         category |-> rows[i].category,
         similarity |-> similarity_of(rows[i].embedding, query_embedding)]]

\* the rows of the store in the order in which it reads them
in_order(rows, order) == [i \in 1..Len(order) |-> rows[order[i]]]

\* what search_skills_semantic returns when the provider answered
search_skills_semantic(rows, args, query_embedding, order) ==
    search_results(
        limit_rows(
            order_by_distance(
                << >>,
                SelectSeq(in_order(rows, order), LAMBDA row :
                    is_selected(row, query_embedding, args.similarity_threshold,
                                args.categories)),
                query_embedding),
            args.limit),
        query_embedding)

SearchCall(args) ==
    [op |-> "search_skills_semantic", args |-> args, done |-> FALSE,
     query_embedding |-> << >>, result |-> << >>, raised |-> FALSE]

SearchCalls ==
    {SearchCall(args) : args \in
        [query : {<<"p", "y">>, <<"S", "Q">>, <<"G", "o">>},
         limit : 0..MaxSearchLimit,
         similarity_threshold : {R(7, 10), R(4, 5), R(24, 25)},
         categories : {<< >>, <<"technical">>, <<"tool", "technical">>}]}

\* the skill graph that is searched
SearchRows ==
    SkillRows \o
    <<[id |-> 101, name |-> <<"P", "y">>, category |-> "technical",
       parent_skill_id |-> << >>, skill_path |-> <<<<"P", "y">>>>, level |-> 1,
       embedding |-> <<4, 3>>, is_active |-> TRUE],
      [id |-> 102, name |-> <<"N", "p">>, category |-> "tool",
       parent_skill_id |-> <<101>>, skill_path |-> <<<<"P", "y">>, <<"N", "p">>>>,
       level |-> 2, embedding |-> <<3, 4>>, is_active |-> TRUE],
      [id |-> 103, name |-> <<"P", "d">>, category |-> "tool",
       parent_skill_id |-> <<101>>, skill_path |-> <<<<"P", "y">>, <<"P", "d">>>>,
       level |-> 2, embedding |-> <<4, 3>>, is_active |-> FALSE],
      [id |-> 104, name |-> <<"J", "s">>, category |-> "technical",
       parent_skill_id |-> << >>, skill_path |-> <<<<"J", "s">>>>, level |-> 1,
       embedding |-> <<3, 4>>, is_active |-> TRUE]>>

InitSearch ==
    /\ employees = << >>
    /\ vacancies = << >>
    /\ skills = {}
    /\ matches = << >>
    /\ ret \in SearchCalls
    /\ prev = NoCall
    /\ skill_nodes = SearchRows
    /\ relationships = << >>
    /\ tasks = << >>
    /\ unique_keys = FALSE
    /\ foreign_keys = FALSE

\* query_embedding = await self.ai_service.get_embedding(query), the SELECT
\* and the result list
SearchSkillsSemantic ==
    /\ IsPending(ret, "search_skills_semantic")
    /\ \E order \in RowOrders(DOMAIN skill_nodes) :
        ret' = [ret EXCEPT
            !.done = TRUE,
            !.query_embedding = <<embedding_of(ret.args.query, "")>>,
            !.result = search_skills_semantic(skill_nodes, ret.args,
                                              embedding_of(ret.args.query, ""), order)]
    /\ UNCHANGED <<prev, graph_vars>>
    /\ UNCHANGED <<employees, vacancies, skills, matches>>

\* the exception leaves search_skills_semantic: the exception leaves search_skills_semantic
search_failed_raises(call) ==
    [call EXCEPT !.done = TRUE, !.raised = TRUE]

\* except Exception as e: logger.error(...); return []
search_failed(call) ==
    [call EXCEPT !.done = TRUE, !.result = << >>]

\* get_embedding raises AIServiceError
SearchEmbeddingFails ==
    /\ IsPending(ret, "search_skills_semantic")
    /\ ret' = search_failed(ret)
    /\ UNCHANGED <<prev, graph_vars>>
    /\ UNCHANGED <<employees, vacancies, skills, matches>>

NextSearch == SearchSkillsSemantic \/ SearchEmbeddingFails

SpecSearch == InitSearch /\ [][NextSearch]_vars

-----------------------------------------------------------------------------
(* Claims about search_skills_semantic                                     *)

Search == "search_skills_semantic"

\* the cosine of two vectors of length 5
Cosine(a, b) == R(a[1] * b[1] + a[2] * b[2], 25)

\* the places of the active skills of the filter whose similarity to the
\* query reaches the threshold
QualifyingSkills(call) ==
    {i \in DOMAIN skill_nodes :
        /\ skill_nodes[i].is_active
        /\ \/ call.args.categories = << >>
           \/ \E k \in DOMAIN call.args.categories :
                call.args.categories[k] = skill_nodes[i].category
        /\ RLeq(call.args.similarity_threshold,
                Cosine(skill_nodes[i].embedding, call.query_embedding[1]))}

\* C15: every skill search_skills_semantic returns is an active skill of the
\* category filter (when one is given) whose similarity to the query is at
\* least similarity_threshold; the results are in non-increasing order of
\* similarity, at most limit of them, each skill once; and when the provider
\* embedded the query they are the most similar qualifying skills: as many as
\* the limit allows, none less similar than a qualifying skill left out.
C15_SearchResults ==
    Returned(ret, Search) =>
        /\ Len(ret.result) <= ret.args.limit
        /\ \A i \in DOMAIN ret.result :
            /\ RLeq(ret.args.similarity_threshold, ret.result[i].similarity)
            /\ \E k \in QualifyingSkills(ret) :
                /\ skill_nodes[k].id = ret.result[i].skill_id
                /\ ret.result[i].similarity =
                        Cosine(skill_nodes[k].embedding, ret.query_embedding[1])
            /\ \A j \in DOMAIN ret.result :
                /\ i < j => RLeq(ret.result[j].similarity, ret.result[i].similarity)
                /\ i # j => ret.result[i].skill_id # ret.result[j].skill_id
        /\ ret.query_embedding # << >> =>
            /\ Len(ret.result) = Smaller(ret.args.limit,
                                         Cardinality(QualifyingSkills(ret)))
            /\ \A k \in QualifyingSkills(ret) :
                \/ \E i \in DOMAIN ret.result : ret.result[i].skill_id = skill_nodes[k].id
                \/ \A i \in DOMAIN ret.result :
                    RLeq(Cosine(skill_nodes[k].embedding, ret.query_embedding[1]),
                         ret.result[i].similarity)

\* a search for "py" over all categories with limit 2 and threshold 0.8:
\* three active skills qualify, the best and one of the two next are
\* returned, and the inactive skill of similarity 1.0 is not
C15_Witness ==
    /\ Returned(ret, Search)
    /\ ret.args.limit = 2
    /\ ret.args.similarity_threshold = R(4, 5)
    /\ ret.args.categories = << >>
    /\ Cardinality(QualifyingSkills(ret)) = 3
    /\ Len(ret.result) = 2
    /\ ret.result[1].skill_id = 101
    /\ ret.result[1].similarity = One
    /\ ret.result[2].similarity = R(24, 25)
    /\ \E i \in DOMAIN skill_nodes :
        /\ ~skill_nodes[i].is_active
        /\ Cosine(skill_nodes[i].embedding, ret.query_embedding[1]) = One

\* C20: search_skills_semantic raises nothing to its caller; it returns the
\* empty list when the embedding provider fails and when no skill qualifies;
\* the skill store is as it was before the call.
C20_SearchNeverRaises ==
    Returned(ret, Search) =>
        /\ ~ret.raised
        /\ ret.query_embedding = << >> => ret.result = << >>
        /\ (ret.query_embedding # << >> /\ QualifyingSkills(ret) = {}) =>
                ret.result = << >>
        /\ skill_nodes = SearchRows
        /\ relationships = << >>

\* the provider failed on a query for which the store holds qualifying
\* skills, and the call returned the empty list
C20_Witness ==
    /\ Returned(ret, Search)
    /\ ret.query_embedding = << >>
    /\ ret.args.query = <<"p", "y">>
    /\ ret.args.limit = 2
    /\ ret.args.categories = << >>
    /\ ret.result = << >>
    /\ ~ret.raised

-----------------------------------------------------------------------------
(* Claims about identities that do not resolve                             *)

MEV == "match_employee_to_vacancy"

Unresolved(call) ==
    \/ call.args.employee_id \notin DOMAIN employees
    \/ call.args.vacancy_id \notin DOMAIN vacancies

\* C16: match_employee_to_vacancy with an employee id or a vacancy id that
\* does not resolve returns None and the store holds no Match row after it;
\* find_candidates_for_vacancy for an unknown vacancy returns the empty list
\* and the store holds no Match row after it.
C16_UnresolvedYieldsNothing ==
    /\ (Returned(ret, MEV) /\ Unresolved(ret)) =>
            /\ ret.result = << >>
            /\ matches = << >>
    /\ (Returned(ret, FC) /\ ret.args.vacancy_id \notin DOMAIN vacancies) =>
            /\ ret.result = << >>
            /\ matches = << >>

\* a saving call for an unknown employee and a known vacancy returned
C16_Witness ==
    /\ Returned(ret, MEV)
    /\ ret.args.save_result
    /\ ret.args.employee_id = UnknownId
    /\ ret.args.vacancy_id \in DOMAIN vacancies
    /\ ret.result = << >>
    /\ matches = << >>

-----------------------------------------------------------------------------
(* Claims about pairs whose computation fails                              *)

\* the employees of a returned list
Returns(call) == {call.result[i].employee_id : i \in DOMAIN call.result}

\* C17: find_candidates_for_vacancy completes with the pairs that succeeded:
\* when the computation of some pairs raises, every other qualifying pair is
\* still returned (as far as the limit allows), and what the call returns
\* tells how many pairs were skipped: two calls with the same arguments that
\* return the same list skipped the same number of pairs.
C17_PartialFailureReported ==
    /\ Returned(ret, FC) =>
        \/ Len(ret.result) = ret.args.limit
        \/ QualifyingEmployees(ret.args) \subseteq Returns(ret)
    /\ (/\ Returned(prev, FC)
        /\ Returned(ret, FC)
        /\ prev.args = ret.args
        /\ prev.result = ret.result) =>
            Cardinality(prev.failed) = Cardinality(ret.failed)

-----------------------------------------------------------------------------
(* SpecValidate: _analyze_skills_match and _calculate_hard_skills_score on *)
(* requirement sets as they are stored, of any level string and weight     *)

\* a level string that is none of the five levels
MalformedLevel == "guru"

StoredLevels == {"novice", "advanced", MalformedLevel}

\* stored weights: two in [0,1] and one above it
StoredWeights == {Zero, One, R(3, 2)}

StoredRequirements ==
    [current_level : {None, "novice", "expert"}, min_level : StoredLevels,
     weight : StoredWeights, is_critical : BOOLEAN]

RequirementSets ==
    UNION {[1..n -> StoredRequirements] : n \in 1..MaxReqs}

\* SkillLevel(value) of the enum: a ValueError for a value that is no member
skill_level_raises(value) == value \notin SkillLevel

\* the construction of the SkillGap of one requirement raises
skill_gap_raises(requirements) ==
    /\ calculate_gap_severity(requirements.current_level, requirements.min_level,
                              requirements.is_critical) # "none"
    /\ \/ skill_level_raises(requirements.min_level)
       \/ /\ requirements.current_level # None
          /\ skill_level_raises(requirements.current_level)

\* the loop of _analyze_skills_match over requirements whose skills resolve
analyzed(required_skills) ==
    [i \in 1..Len(required_skills) |->
        analyze_requirement(required_skills[i].current_level,
                            required_skills[i].min_level,
                            required_skills[i].is_critical,
                            required_skills[i].weight)]

\* _analyze_skills_match with its outer except clause: no SkillMatch at all
\* once the SkillGap of one requirement could not be built
analyzed_or_empty(required_skills) ==
    IF \E i \in 1..Len(required_skills) : skill_gap_raises(required_skills[i])
    THEN << >>
    ELSE analyzed(required_skills)

\* the hard-skills part of match_employee_to_vacancy: what the caller gets
\* for a requirement set; no path of the code gives a validation reason
hard_skills_of(required_skills) ==
    LET skill_matches == analyzed_or_empty(required_skills)
    IN  [validation_error |-> None,
         skill_matches |-> skill_matches,
         hard_skills_score |-> <<calculate_hard_skills_score(skill_matches)>>]

InitValidate ==
    /\ EmptyStore
    /\ prev = NoCall
    /\ ret \in {Call("hard_skills_of", [required_skills |-> l]) :
                  l \in RequirementSets}

ScoreRequirements ==
    /\ IsPending(ret, "hard_skills_of")
    /\ ret' = [ret EXCEPT !.done = TRUE,
                          !.result = hard_skills_of(ret.args.required_skills)]
    /\ UNCHANGED prev
    /\ StoreUnchanged

SpecValidate == InitValidate /\ [][ScoreRequirements]_vars

WeightOutOfRange(required_skills) ==
    \E i \in 1..Len(required_skills) :
        \/ RLt(required_skills[i].weight, Zero)
        \/ RGt(required_skills[i].weight, One)

LevelMalformed(required_skills) ==
    \E i \in 1..Len(required_skills) : required_skills[i].min_level \notin SkillLevel

RECURSIVE SumOfWeights(_)
SumOfWeights(required_skills) ==
    IF required_skills = << >> THEN Zero
    ELSE RAdd(Head(required_skills).weight, SumOfWeights(Tail(required_skills)))

WeightsSumToZero(required_skills) == SumOfWeights(required_skills) = Zero

InvalidRequirements(required_skills) ==
    \/ WeightOutOfRange(required_skills)
    \/ LevelMalformed(required_skills)
    \/ WeightsSumToZero(required_skills)

\* C18: a requirement set with a weight outside [0,1], a level that is none
\* of the five levels, or weights that sum to zero is rejected with a
\* validation reason and gets no score; it is never scored as if it were valid
C18_InvalidRequirementsRejected ==
    (/\ Returned(ret, "hard_skills_of")
     /\ InvalidRequirements(ret.args.required_skills)) =>
        /\ ret.result.validation_error # None
        /\ ret.result.hard_skills_score = NoNumber

-----------------------------------------------------------------------------
(* SpecExplain: _generate_match_explanation over AIService.explain_match,  *)
(* with a language-model backend that answers or fails                     *)

\* x rounded to the nearest integer, ties to even, for a rational x >= 0
round_half_even(x) ==
    LET floor == x[1] \div x[2]
        twice_rest == 2 * (x[1] % x[2])
    IN  IF twice_rest < x[2] THEN floor
        ELSE IF twice_rest > x[2] THEN floor + 1
        ELSE IF floor % 2 = 0 THEN floor ELSE floor + 1

\* format(score, ".1%"): the percentage in tenths of a percent
percent_1(score) == round_half_even(RMul(score, RInt(1000)))

\* the text the language model answers with
LLMText == [sentence |-> "llm"]

\* the except clause of AIService.explain_match
explain_match_fallback(match_score) ==
    [sentence |-> "needs_analysis", percent |-> percent_1(match_score)]

\* AIService.explain_match: _call_llm raises AIServiceError on any failure,
\* and explain_match catches it
explain_match(match_score, llm_fails) ==
    IF llm_fails THEN explain_match_fallback(match_score) ELSE LLMText

\* the except clause of _generate_match_explanation
templated_sentence(total_score) ==
    [sentence |-> IF RGeq(total_score, R(7, 10)) THEN "fits" ELSE "partially_fits",
     percent |-> percent_1(total_score)]

\* _generate_match_explanation: its except clause is reached only by an
\* exception that explain_match lets through or that precedes its call
generate_match_explanation(total_score, llm_fails, preparation_raises) ==
    IF preparation_raises THEN templated_sentence(total_score)
    ELSE explain_match(total_score, llm_fails)

\* the part of the MatchResult that follows the total score
explained_result(total_score, llm_fails, preparation_raises) ==
    [total_score |-> total_score,
     match_type |-> determine_match_type(total_score),
     explanation |-> generate_match_explanation(total_score, llm_fails,
                                                preparation_raises)]

ExplainArgs ==
    [total_score : {R(k, ScoreDen) : k \in 0..ScoreDen},
     llm_fails : BOOLEAN, preparation_raises : BOOLEAN]

InitExplain ==
    /\ EmptyStore
    /\ prev = NoCall
    /\ ret \in {Call("generate_match_explanation", a) : a \in ExplainArgs}

GenerateMatchExplanation ==
    /\ IsPending(ret, "generate_match_explanation")
    /\ ret' = [ret EXCEPT !.done = TRUE,
                          !.result = explained_result(ret.args.total_score,
                                                      ret.args.llm_fails,
                                                      ret.args.preparation_raises)]
    /\ UNCHANGED prev
    /\ StoreUnchanged

SpecExplain == InitExplain /\ [][GenerateMatchExplanation]_vars

\* C21: when the explanation backend fails, the result keeps its score and
\* match type and its explanation is the matching engine's templated
\* sentence: the percentage, and 'fits' from 0.7 upwards, else 'partially fits'
C21_ExplanationFallback ==
    (/\ Returned(ret, "generate_match_explanation")
     /\ ret.args.llm_fails) =>
        /\ ret.result.total_score = ret.args.total_score
        /\ ret.result.match_type = determine_match_type(ret.args.total_score)
        /\ ret.result.explanation = templated_sentence(ret.args.total_score)

-----------------------------------------------------------------------------
(* SpecConfidence: _calculate_confidence on profiles and vacancies with    *)
(* fields present, empty or absent                                         *)

\* Python truthiness of an optional string: None and "" are false
TruthyText(x) == x # None /\ x # ""

\* Python truthiness of employee.skills: a dict with at least one entry
TruthySkills(employee_skills) == \E s \in DOMAIN employee_skills : employee_skills[s] # None

RECURSIVE sum(_)
sum(confidence_factors) ==
    IF confidence_factors = << >> THEN Zero
    ELSE RAdd(Head(confidence_factors), sum(Tail(confidence_factors)))

\* data_completeness of _calculate_confidence, appended when there are matches
data_completeness(skill_matches) ==
    IF skill_matches = << >> THEN << >>
    ELSE LET skills_with_data ==
                 Len(SelectSeq(skill_matches, LAMBDA m : m.current_level # None))
             total_skills == Len(skill_matches)
         IN  <<R(skills_with_data, total_skills)>>

profile_completeness(employee) ==
    sum(<<IF TruthyText(employee.full_name) THEN R(2, 10) ELSE Zero,
          IF TruthyText(employee.current_role) THEN R(2, 10) ELSE Zero,
          IF Truthy(employee.experience_years) THEN R(2, 10) ELSE Zero,
          IF TruthySkills(employee.skills) THEN R(2, 10) ELSE Zero,
          IF TruthyText(employee.department) THEN R(2, 10) ELSE Zero>>)

vacancy_completeness(vacancy) ==
    sum(<<R(5, 10),
          IF vacancy.role # NoRole /\ vacancy.role[1].skills_required # << >>
          THEN R(3, 10) ELSE Zero,
          IF Truthy(vacancy.min_experience_years) THEN R(2, 10) ELSE Zero>>)

\* mutant of mean: the sum is always divided by three
mean_of_three(confidence_factors) ==
    IF confidence_factors = << >> THEN R(5, 10)
    ELSE RDiv(sum(confidence_factors), RInt(3))

\* the return expression of _calculate_confidence
mean(confidence_factors) ==
    IF confidence_factors = << >> THEN R(5, 10)
    ELSE RDiv(sum(confidence_factors), RInt(Len(confidence_factors)))

confidence_factors_of(skill_matches, employee, vacancy) ==
    data_completeness(skill_matches)
    \o <<profile_completeness(employee)>>
    \o <<vacancy_completeness(vacancy)>>

calculate_confidence(skill_matches, employee, vacancy) ==
    mean(confidence_factors_of(skill_matches, employee, vacancy))

\* confidence of match_employee_to_vacancy: the matches are those of
\* _analyze_skills_match for the pair
confidence_of(employee, vacancy, skill_graph) ==
    calculate_confidence(
        analyze_skills_match(employee, required_skills_of(vacancy), skill_graph),
        employee, vacancy)

ProfileSamples ==
    [full_name : {None, "Ann"}, current_role : {None, "Developer"},
     experience_years : {NoNumber, <<0>>, <<3>>},
     skills : {NoSkills, JuniorSkills, SeniorSkills},
     department : {"", "Sales"}]

RoleSamples ==
    {NoRole,
     <<[skills_required |-> << >>]>>,
     <<[skills_required |-> <<Requirement("s3", "novice", One, FALSE)>>]>>,
     <<[skills_required |-> <<Requirement("s1", "expert", One, TRUE),
                              Requirement("s2", "novice", One, FALSE)>>]>>}

VacancySamples ==
    [role : RoleSamples,
     required_skills_override : {<< >>, <<Requirement("s1", "beginner", One, FALSE)>>},
     min_experience_years : {NoNumber, <<0>>, <<2>>}]

\* the skills of the SkillGraph table: "s3" is in no row
StoredSkills == {"s1", "s2"}

InitConfidence ==
    /\ EmptyStore
    /\ prev = NoCall
    /\ ret \in {Call("calculate_confidence", a) :
                  a \in [employee : ProfileSamples, vacancy : VacancySamples]}

CalculateConfidence ==
    /\ IsPending(ret, "calculate_confidence")
    /\ ret' = [ret EXCEPT !.done = TRUE,
                          !.result = confidence_of(ret.args.employee,
                                                   ret.args.vacancy, StoredSkills)]
    /\ UNCHANGED prev
    /\ StoreUnchanged

SpecConfidence == InitConfidence /\ [][CalculateConfidence]_vars

\* the requirements of the pair whose skill is stored, and those of them
\* the profile records a level for
ResolvedRequirements(vacancy) ==
    {i \in 1..Len(required_skills_of(vacancy)) :
        required_skills_of(vacancy)[i].skill_id \in StoredSkills}

RecordedRequirements(employee, vacancy) ==
    {i \in ResolvedRequirements(vacancy) :
        employee.skills[required_skills_of(vacancy)[i].skill_id] # None}

PopulatedFields(employee) ==
    (IF TruthyText(employee.full_name) THEN {"name"} ELSE {})
    \cup (IF TruthyText(employee.current_role) THEN {"role"} ELSE {})
    \cup (IF Truthy(employee.experience_years) THEN {"experience"} ELSE {})
    \cup (IF TruthySkills(employee.skills) THEN {"skills"} ELSE {})
    \cup (IF TruthyText(employee.department) THEN {"department"} ELSE {})

ProfileFraction(employee) == R(2 * Cardinality(PopulatedFields(employee)), 10)

VacancyFraction(vacancy) ==
    R(5 + (IF vacancy.role # NoRole /\ vacancy.role[1].skills_required # << >>
           THEN 3 ELSE 0)
        + (IF Truthy(vacancy.min_experience_years) THEN 2 ELSE 0), 10)

\* the share of requirement skills with a recorded level; of no requirement
\* it is 1 (all of none) or 0 (none of none)
SkillShares(employee, vacancy) ==
    IF ResolvedRequirements(vacancy) = {} THEN {Zero, One}
    ELSE {R(Cardinality(RecordedRequirements(employee, vacancy)),
            Cardinality(ResolvedRequirements(vacancy)))}

Confidence == "calculate_confidence"

\* C22 as stated: the confidence is the mean of the three completeness
\* fractions for every profile and vacancy, also when the vacancy has no
\* requirement, and lies in [0,1]
C22_MeanOfThree ==
    Returned(ret, Confidence) =>
        /\ \E share \in SkillShares(ret.args.employee, ret.args.vacancy) :
            ret.result = RDiv(RAdd(RAdd(share, ProfileFraction(ret.args.employee)),
                                   VacancyFraction(ret.args.vacancy)), RInt(3))
        /\ InUnitInterval(ret.result)

\* C22 amended: the confidence is the mean of the fractions that exist: the
\* three of them when a requirement resolves, the profile and the vacancy
\* fraction alone when none does; every fraction and the confidence lie in [0,1]
C22_MeanOfAvailable ==
    Returned(ret, Confidence) =>
        LET employee == ret.args.employee
            vacancy == ret.args.vacancy
            both == RAdd(ProfileFraction(employee), VacancyFraction(vacancy))
        IN  /\ InUnitInterval(ProfileFraction(employee))
            /\ InUnitInterval(VacancyFraction(vacancy))
            /\ \A share \in SkillShares(employee, vacancy) : InUnitInterval(share)
            /\ InUnitInterval(ret.result)
            /\ IF ResolvedRequirements(vacancy) = {}
               THEN ret.result = RDiv(both, RInt(2))
               ELSE \E share \in SkillShares(employee, vacancy) :
                       ret.result = RDiv(RAdd(share, both), RInt(3))

\* a vacancy without requirements has been given a confidence that is the
\* mean of two fractions and of no three
C22_Witness ==
    /\ Returned(ret, Confidence)
    /\ required_skills_of(ret.args.vacancy) = << >>
    /\ ret.result = R(9, 20)
    /\ ProfileFraction(ret.args.employee) = R(2, 10)
    /\ VacancyFraction(ret.args.vacancy) = R(7, 10)

-----------------------------------------------------------------------------
(* Claims about the hierarchy create_skill builds                          *)

RowsOfId(id) == {j \in DOMAIN skill_nodes : skill_nodes[j].id = id}

\* C23: every stored skill that records a parent id has that parent in the
\* store, one level below the skill and with the skill's path less its last
\* name; a skill without a parent has its own name as path; every skill
\* create_skill stored is active
C23_HierarchyConsistent ==
    \A i \in DOMAIN skill_nodes :
        LET row == skill_nodes[i]
        IN  /\ row.parent_skill_id # << >> =>
                \E j \in RowsOfId(row.parent_skill_id[1]) :
                    /\ row.level = skill_nodes[j].level + 1
                    /\ row.skill_path = skill_nodes[j].skill_path \o <<row.name>>
            /\ row.parent_skill_id = << >> => row.skill_path = <<row.name>>
            /\ row.is_active

-----------------------------------------------------------------------------
(* SpecAnalyze: _analyze_skills_match on requirement dicts whose keys are  *)
(* stored skills, unknown skills or no UUID at all                         *)

\* a key of the requirement dict that UUID() cannot parse
Unparsable == "not-a-uuid"

\* UUID(skill_id_str) returns: a ValueError makes the loop continue
parses_as_uuid(skill_id_str) == skill_id_str # Unparsable

\* the requirements the loop of _analyze_skills_match does not skip
resolved_requirements(required_skills, skill_graph) ==
    SelectSeq(required_skills,
              LAMBDA requirements :
                  /\ parses_as_uuid(requirements.skill_id)
                  /\ requirements.skill_id \in skill_graph)

\* _analyze_skills_match with its try/except: the two lists it returns
analyze_skills_match_or_empty(employee, required_skills, skill_graph) ==
    LET resolved == resolved_requirements(required_skills, skill_graph)
    IN  IF \E i \in 1..Len(resolved) :
              skill_gap_raises(
                  [current_level |-> employee.skills[resolved[i].skill_id],
                   min_level |-> resolved[i].min_level,
                   is_critical |-> resolved[i].is_critical])
        THEN [skill_matches |-> << >>, skill_gaps |-> << >>]
        ELSE LET skill_matches ==
                     analyze_skills_match(employee, resolved, skill_graph)
             IN  [skill_matches |-> skill_matches,
                  skill_gaps |-> skill_gaps_of(skill_matches)]

RequirementKeys == SkillIds \cup {Unparsable}

RequirementSamples ==
    {Requirement(skill_id, min_level, One, is_critical) :
        skill_id \in RequirementKeys,
        min_level \in {"novice", "expert", MalformedLevel},
        is_critical \in BOOLEAN}

\* requirement dicts: every key at most once
RequirementDicts ==
    {l \in UNION {[1..n -> RequirementSamples] : n \in 0..MaxReqs} :
        \A i, j \in DOMAIN l : i # j => l[i].skill_id # l[j].skill_id}

SkillRecords ==
    {[s \in RequirementKeys |->
        IF s = "s1" THEN level_1 ELSE IF s = "s2" THEN level_2 ELSE None] :
        level_1 \in {None, "novice", "expert"}, level_2 \in {None, "intermediate"}}

InitAnalyze ==
    /\ EmptyStore
    /\ prev = NoCall
    /\ ret \in {Call("analyze_skills_match", a) :
                  a \in [employee : [skills : SkillRecords],
                         required_skills : RequirementDicts]}

AnalyzeSkillsMatch ==
    /\ IsPending(ret, "analyze_skills_match")
    /\ ret' = [ret EXCEPT
            !.done = TRUE,
            !.result = analyze_skills_match_or_empty(ret.args.employee,
                                                     ret.args.required_skills,
                                                     StoredSkills)]
    /\ UNCHANGED prev
    /\ StoreUnchanged

SpecAnalyze == InitAnalyze /\ [][AnalyzeSkillsMatch]_vars

\* the requirements of the call whose key is the id of a stored skill
Resolved(call) ==
    {i \in DOMAIN call.args.required_skills :
        call.args.required_skills[i].skill_id \in StoredSkills}

SeverityOf(call, i) ==
    LET requirements == call.args.required_skills[i]
    IN  calculate_gap_severity(call.args.employee.skills[requirements.skill_id],
                               requirements.min_level, requirements.is_critical)

RecordsOf(records, skill_id) == {k \in DOMAIN records : records[k].skill_id = skill_id}

\* C24: one match record for every requirement whose skill id resolves, none
\* for any other; the gap list holds exactly the resolved requirements whose
\* severity is not none, so a met requirement is matched and in no gap
C24_OneRecordPerResolved ==
    Returned(ret, "analyze_skills_match") =>
        LET required_skills == ret.args.required_skills
        IN  /\ \A i \in DOMAIN required_skills :
                Cardinality(RecordsOf(ret.result.skill_matches,
                                      required_skills[i].skill_id))
                    = IF i \in Resolved(ret) THEN 1 ELSE 0
            /\ \A i \in DOMAIN required_skills :
                Cardinality(RecordsOf(ret.result.skill_gaps,
                                      required_skills[i].skill_id))
                    = IF i \in Resolved(ret) /\ SeverityOf(ret, i) # "none"
                      THEN 1 ELSE 0

-----------------------------------------------------------------------------
(* Claims about what match_employee_to_vacancy writes                      *)

\* the Match rows of other pairs than that of the call of the task, in order
RowsOfOthers(match_rows, task) ==
    SelectSeq(match_rows,
              LAMBDA row : \/ row.employee_id # tasks[task].args.employee_id
                           \/ row.vacancy_id # tasks[task].args.vacancy_id)

\* a step of the call of the task
StepOf(task) ==
    /\ tasks[task].op = "match_employee_to_vacancy"
    /\ tasks'[task] # tasks[task]

C25_Frame ==
    \A task \in Tasks :
        StepOf(task) =>
            /\ UNCHANGED <<employees, vacancies, skills, skill_nodes, relationships>>
            /\ RowsOfOthers(matches', task) = RowsOfOthers(matches, task)
            /\ ~tasks[task].args.save_result => matches' = matches

\* C25: a call of match_employee_to_vacancy leaves the skills, the skill
\* relationships, the profiles and the vacancies unchanged and the Match
\* rows of all other pairs unchanged; it writes at most the Match row of its
\* own pair, and nothing at all when save_result is false
C25_WritesOnlyOwnPair == [][C25_Frame]_vars

\* a call has saved the row of its pair next to the row of another pair, and
\* a call with save_result = False has returned a MatchResult
C25_Witness ==
    /\ Len(matches) = 2
    /\ matches[1] = StaleMatch
    /\ matches[2].employee_id = "e1" /\ matches[2].vacancy_id = "v2"
    /\ \E task \in Tasks :
        /\ tasks[task].pc = "done"
        /\ ~tasks[task].args.save_result
        /\ tasks[task].result # << >>

-----------------------------------------------------------------------------
(* SpecFloor: the MatchResult of one profile and one vacancy, and whether   *)
(* find_candidates_for_vacancy with its default arguments keeps it          *)

\* min_score: float = 0.3 and include_stretch: bool = True
DefaultMinScore == R(3, 10)
DefaultIncludeStretch == TRUE

FloorProfiles ==
    [is_active : {TRUE}, mobility_ready : BOOLEAN, experience_years : Years,
     current_role : {"Developer", "Team Lead"},
     departments_worked : {{"Sales"}, {"Engineering", "Sales"}},
     department : {"Engineering", "Sales"}, location : {"Moscow", "Kazan"},
     skills : {NoSkills, JuniorSkills, SeniorSkills}]

FloorVacancies ==
    {[VacancyRows[v] EXCEPT !.min_experience_years = years] :
        v \in VacancyIds, years \in Years}

\* the MatchResult of the pair and the condition of the loop of
\* find_candidates_for_vacancy on it, under the default arguments
matched_by_default(employee, vacancy, skill_graph) ==
    LET match_result == match_result_of("e1", employee, "v1", vacancy, skill_graph)
    IN  [match_result |-> match_result,
         kept |-> is_kept(<<match_result>>, DefaultMinScore, DefaultIncludeStretch)]

InitFloor ==
    /\ EmptyStore
    /\ prev = NoCall
    /\ ret \in {Call("matched_by_default", a) :
                  a \in [employee : FloorProfiles, vacancy : FloorVacancies]}

MatchByDefault ==
    /\ IsPending(ret, "matched_by_default")
    /\ ret' = [ret EXCEPT
            !.done = TRUE,
            !.result = matched_by_default(ret.args.employee, ret.args.vacancy,
                                          StoredSkills)]
    /\ UNCHANGED prev
    /\ StoreUnchanged

SpecFloor == InitFloor /\ [][MatchByDefault]_vars

\* 0.20 * 0.7 + 0.25 * 0.2 + 0.15 * 0.75
ScoreFloor == R(3025, 10000)

\* C26: a MatchResult of a requirement set with non-negative weights has a
\* soft-skill score >= 0.7, a culture-fit score >= 0.75, an experience score
\* >= 0.2 and so a total score >= 0.3025; the default min_score of 0.3 then
\* excludes no scored profile, and a score below 0.5 is a stretch match
C26_TotalScoreFloor ==
    Returned(ret, "matched_by_default") =>
        LET match_result == ret.result.match_result
        IN  /\ RGeq(match_result.soft_skills_score, R(7, 10))
            /\ RGeq(match_result.culture_fit_score, R(75, 100))
            /\ RGeq(match_result.experience_score, R(2, 10))
            /\ RGeq(match_result.hard_skills_score, Zero)
            /\ RGeq(match_result.total_score, ScoreFloor)
            /\ ret.result.kept
            /\ RLt(match_result.total_score, R(5, 10)) =>
                    match_result.match_type = "stretch"

\* a profile that scores exactly the floor, and is kept as a stretch match
C26_Witness ==
    /\ Returned(ret, "matched_by_default")
    /\ ret.result.match_result.total_score = ScoreFloor
    /\ ret.result.match_result.match_type = "stretch"
    /\ ret.result.kept

-----------------------------------------------------------------------------
(* Claims about the order of experience scores                             *)

Experience == "calculate_experience_score"

\* C27: for a fixed required number of years, a profile that declares more
\* years of experience never gets a lower experience score than one that
\* declares fewer, over all non-negative numbers of years, 0 included
C27_ExperienceMonotone ==
    (/\ Returned(prev, Experience) /\ Returned(ret, Experience)
     /\ prev.args.min_experience_years = ret.args.min_experience_years
     /\ prev.args.experience_years # NoNumber
     /\ ret.args.experience_years # NoNumber
     /\ prev.args.experience_years[1] <= ret.args.experience_years[1]) =>
        RLeq(prev.result, ret.result)

-----------------------------------------------------------------------------
(* Claims about the agreement of match score and gap severity              *)

Analysis == "analyze_requirement"

\* C28: in a match record of levels of the five-value scale, match_score is
\* 1.0 exactly when gap_severity is none, and 0.0 exactly when the profile
\* has no record of the skill, where the severity is medium, high or critical
C28_ScoreAgreesWithSeverity ==
    Returned(ret, Analysis) =>
        /\ ret.result.match_score = One <=> ret.result.gap_severity = "none"
        /\ ret.result.match_score = Zero <=> ret.args.current_level = None
        /\ ret.args.current_level = None =>
                ret.result.gap_severity \in {"medium", "high", "critical"}

\* a record one level short: neither a full score nor no gap
C28_Witness ==
    /\ Returned(ret, Analysis)
    /\ ret.args.current_level = "advanced"
    /\ ret.args.required_level = "expert"
    /\ ret.result.match_score = R(4, 5)
    /\ ret.result.gap_severity = "low"

-----------------------------------------------------------------------------
(* Claims about the Match rows the ranking operations leave                *)

\* the eligible profiles whose pair with the vacancy was scored
ScoredEmployees(call) ==
    {e \in eligible_employees(employees) \ call.failed :
        call.args.vacancy_id \in DOMAIN vacancies}

\* C29: after find_candidates_for_vacancy for an existing vacancy the store
\* holds the Match row of every eligible profile whose pair was scored,
\* whether or not the profile is in the returned list; after
\* find_roles_for_employee the store holds the Match rows it held before
C29_AllScoredPairsSaved ==
    /\ Returned(ret, FC) =>
        \A e \in ScoredEmployees(ret) :
            SavedTotals(e, ret.args.vacancy_id) =
                {match_result_of(e, employees[e], ret.args.vacancy_id,
                                 vacancies[ret.args.vacancy_id], skills).total_score}
    /\ ret.op = FR => matches = << >>

\* a profile that was scored and saved is left out of the returned list
C29_Witness ==
    /\ Returned(ret, FC)
    /\ \E e \in ScoredEmployees(ret) :
        /\ e \notin Returns(ret)
        /\ SavedTotals(e, ret.args.vacancy_id) # {}
        /\ Len(ret.result) = ret.args.limit
    /\ \E e \in ScoredEmployees(ret) :
        /\ e \notin Returns(ret)
        /\ ~PassesFilter(match_result_of(e, employees[e], ret.args.vacancy_id,
                                         vacancies[ret.args.vacancy_id], skills),
                         ret.args)

-----------------------------------------------------------------------------
(* Claims about a save that fails                                          *)

\* the call of the task returns after its save failed
FailedSave(task) ==
    /\ StepOf(task)
    /\ tasks'[task].pc = "done"
    /\ tasks'[task].save_failed

C30_Step ==
    \A task \in Tasks :
        FailedSave(task) =>
            /\ matches' = matches
            /\ tasks'[task].result # << >>
            /\ tasks'[task].result =
                    match_employee_to_vacancy(Db, tasks[task].args.employee_id,
                                              tasks[task].args.vacancy_id)

\* C30: when persisting the Match row fails inside match_employee_to_vacancy,
\* the store keeps exactly the Match rows it had before the attempt and the
\* call still returns the computed MatchResult
C30_FailedSaveKeepsResult == [][C30_Step]_vars

\* a save failed on a store that holds a row, and the call returned its result
C30_Witness ==
    /\ matches = <<StaleMatch>>
    /\ \E task \in Tasks :
        /\ tasks[task].pc = "done"
        /\ tasks[task].save_failed
        /\ tasks[task].result # << >>
        /\ tasks[task].args.employee_id = "e2"

=============================================================================
